---- MODULE Spec2Model ----
(***************************************************************************)
(* A model of the template engine of pkg/template (JetEngine): the         *)
(* compiled-template cache and the global function table of the jet.Set    *)
(* it wraps, the engine's own funcs map and its sync.RWMutex, and callers   *)
(* that run Load, Render, AddFunc and AddFuncs concurrently.                *)
(***************************************************************************)
EXTENDS Integers, Sequences, FiniteSets, TLC

\* ------------------------------------------------------------------ bounds

\* Calls (Load, Render, AddFunc, AddFuncs) started in one behaviour of the
\* engine on a template directory that stays as it is.
MaxOps == 3

\* Loads started in one behaviour of the engine on a directory that changes.
MaxLoads == 3

\* Rewrites of a template file by the environment in one behaviour.
MaxWrites == 1

\* Calls started in one behaviour of a single caller.
MaxSoloOps == 4

\* Calls started in one behaviour of the fairly scheduled callers.
MaxFairOps == 2

\* One-byte and two-byte characters of the examples handed to the terminal
\* table.
MaxAscii == 32
MaxWide == 3

\* Calls started in one behaviour of a caller of two engines.
MaxTwoOps == 3

\* Fields of the struct types handed to the documentation generator.
MaxFields == 4

\* ------------------------------------------------------------- value sets

Threads == {"t1", "t2"}

\* Engine instances, each made by its own NewJetEngine call.
Engines == {"e1", "e2"}

\* The engine the callers of the main specification share.
Shared == {"e1"}

Paths == {"a.jet", "b.jet", "c.jet"}

\* The files that change: one that starts as a template, one that starts
\* malformed.
ChangingPaths == {"a.jet", "c.jet"}

Nil == "nil"

\* The names registerDefaultFuncs binds, each with the Go function it binds.
DefaultFuncs ==
    [formatCurrency |-> "FormatCurrency", formatPercent |-> "FormatPercent",
     formatFloat |-> "FormatFloat", colorCode |-> "ColorCode",
     trendIndicator |-> "TrendIndicator", isBullish |-> "IsBullish",
     isBearish |-> "IsBearish", isOverbought |-> "IsOverbought",
     isOversold |-> "IsOversold", join |-> "JoinFloats",
     joinFloats |-> "JoinFloats", joinInts |-> "JoinInts",
     joinStrings |-> "JoinStrings", toJSON |-> "ToJSON",
     toJSONPretty |-> "ToJSONPretty", range |-> "RangeFormat",
     default |-> "Default", multiply |-> "Multiply", divide |-> "Divide",
     add |-> "Add", subtract |-> "Subtract", abs |-> "Abs", min |-> "Min",
     max |-> "Max"]

BuiltinNames == DOMAIN DefaultFuncs

\* Names a caller registers: one that shadows a built-in, one that is new.
RegNames == {"formatCurrency", "upper"}

Names == BuiltinNames \cup RegNames

\* Functions a caller registers.
CustomFns == {"f1", "f2"}

\* Data contexts a caller renders against.
Contexts == {"c1", "c2"}

\* Template sources: the function calls a template makes, in order.
Sources == {<<"formatCurrency", "formatCurrency">>, <<"formatCurrency", "upper">>}

\* What the OS file system loader finds at a path: no file, a file that
\* does not parse, or a file holding a template source.
FileAbsent == [kind |-> "absent", calls |-> <<>>]
FileMalformed == [kind |-> "malformed", calls |-> <<>>]
SourceFile(s) == [kind |-> "source", calls |-> s]
FileContents == {FileAbsent, FileMalformed} \cup {SourceFile(s) : s \in Sources}

\* The nil *jet.Template and the nil *Template.
NilJet == [id |-> 0, set |-> Nil, path |-> Nil, src |-> <<>>]
NilTemplate == [id |-> 0, Name |-> Nil, Path |-> Nil, jet |-> NilJet]

\* A Template the caller made itself: it has no compiled program.
EmptyTemplate == [id |-> -1, Name |-> "", Path |-> "", jet |-> NilJet]

\* Maps a caller hands to AddFuncs: a name bound to Nil is not in the map.
NoBatch == [n \in RegNames |-> Nil]
BatchMaps == {[n \in RegNames |-> "f1"], [n \in RegNames |-> "f2"]}

\* Every non-empty map over the names a caller registers.
SoloMaps == [RegNames -> CustomFns \cup {Nil}] \ {NoBatch}
Keys(m) == {n \in RegNames : m[n] # Nil}

\* The nil error of Load.
NoError == [path |-> Nil, cause |-> Nil]

\* Causes of a failed GetTemplate.
CauseNotFound == "template could not be found"
CauseParse == "parse error"

\* ------------------------------------------------------------------ state

VARIABLES
    developmentMode, \* [engine] the set's development mode flag (JetOptions)
    setCache,        \* [engine][path] compiled template cached by the set, or nil
    setGlobals,      \* [engine][name] function bound in the set's globals, or Nil
    funcs,           \* [engine][name] function in the engine's funcs map, or Nil
    regEpoch,        \* [engine][name] registrations of the name applied so far
    replaced,        \* [engine][path] whether a Put has replaced a cached template
    muReaders,       \* [engine] threads holding e.mu in shared mode
    muWriter,        \* [engine] thread that announced or holds e.mu.Lock, or Nil
    fs,              \* [path] what the template file holds
    writes,          \* template files rewritten
    heap,            \* next fresh address (identity of allocated objects)
    ops,             \* calls started
    pc,              \* [thread] position of the thread in its call
    eng,             \* [thread] receiver of the call
    path,            \* [thread] Load: path argument
    jt,              \* [thread] Load: the *jet.Template GetTemplate yields
    err,             \* [thread] Load: the error GetTemplate yields
    didRead,         \* [thread] Load: whether the loader read the source
    writesAtCall,    \* [thread] Load: the value of writes when the call started
    held,            \* [thread] the caller's variable for its latest Load result
    fname,           \* [thread] AddFunc: name argument
    ffn,             \* [thread] AddFunc: fn argument
    todo,            \* [thread] AddFuncs: entries of the map not yet visited
    batch,           \* [thread] AddFuncs: the map argument
    regAtCall,       \* [thread] AddFuncs: the globals when the call started
    epochAtCall,     \* [thread] Render, AddFuncs: regEpoch when the call started
    targ,            \* [thread] Render: tmpl argument
    ctx,             \* [thread] Render: data argument
    buf,             \* [thread] Render: the output buffer
    idx,             \* [thread] Render: next node of the template to execute
    rerr,            \* [thread] Render: the error of Execute
    rout,            \* [thread] what the thread's latest Render returned
    called,          \* the library function a program calls by itself, or Nil
    args,            \* the arguments of that call
    ret,             \* what that call returned
    types,           \* command line: the type registry of getTypeByName
    registered,      \* command line: the type registry of getRegisteredTypes
    cmd,             \* command line: the command run and its arguments
    cpc,             \* command line: position of the command's RunE
    cdata,           \* command line: render, the decoded data file
    stdout,          \* command line: what the command wrote to standard output
    outFile,         \* command line: the file the command wrote
    cerr,            \* command line: the error RunE returned
    steps            \* command line: the calls RunE has made, in order

engineVars == <<developmentMode, setCache, setGlobals, funcs, regEpoch, replaced>>
muVars == <<muReaders, muWriter>>
envVars == <<fs, writes>>
loadVars == <<path, jt, err, didRead, writesAtCall, held>>
addVars == <<fname, ffn, todo, batch, regAtCall>>
renderVars == <<targ, ctx, buf, idx, rerr, rout>>
callVars == <<called, args, ret>>
cliVars == <<types, registered, cmd, cpc, cdata, stdout, outFile, cerr, steps>>
engineState == <<engineVars, muVars, envVars, heap, ops, pc, eng, loadVars,
                 addVars, renderVars, epochAtCall>>
vars == <<engineVars, muVars, envVars, heap, ops, pc, eng, loadVars, addVars,
          renderVars, epochAtCall, callVars, cliVars>>

\* ------------------------------------------------------------ construction

\* jet.NewSet(loader [, jet.InDevelopmentMode()]): an empty cache, no globals.
NewSetGlobals == [n \in Names |-> Nil]

\* A registerDefaultFuncs without its set.AddGlobal("join", JoinFloats).
registerDefaultFuncs_NoJoin(g) ==
    [n \in Names |-> IF n \in BuiltinNames \ {"join"} THEN DefaultFuncs[n] ELSE g[n]]

\* registerDefaultFuncs: one set.AddGlobal per built-in helper.
registerDefaultFuncs(g) ==
    [n \in Names |-> IF n \in BuiltinNames THEN DefaultFuncs[n] ELSE g[n]]

\* The template directory the engines start on.
InitialFiles ==
    [p \in Paths |->
        CASE p = "a.jet" -> SourceFile(<<"formatCurrency", "formatCurrency">>)
          [] p = "b.jet" -> SourceFile(<<"formatCurrency", "upper">>)
          [] OTHER -> FileMalformed]

\* No registration of any name yet.
NoEpoch == [n \in RegNames |-> 0]

\* The result of a Render that never ran.
NoRender == [text |-> <<>>, err |-> Nil, jet |-> 0, src |-> <<>>, set |-> Nil,
             ctx |-> Nil, stable |-> FALSE, to |-> NoEpoch]

\* NewJetEngine for every engine, and callers that have called nothing yet.
InitWith(modes) ==
    /\ developmentMode \in modes
    /\ setCache = [e \in Engines |-> [p \in Paths |-> NilJet]]
    /\ setGlobals = [e \in Engines |-> registerDefaultFuncs(NewSetGlobals)]
    /\ funcs = [e \in Engines |-> [n \in Names |-> Nil]]
    /\ regEpoch = [e \in Engines |-> NoEpoch]
    /\ replaced = [e \in Engines |-> [p \in Paths |-> FALSE]]
    /\ muReaders = [e \in Engines |-> {}]
    /\ muWriter = [e \in Engines |-> Nil]
    /\ fs = InitialFiles
    /\ writes = 0
    /\ heap = 1
    /\ ops = 0
    /\ pc = [t \in Threads |-> "idle"]
    /\ eng = [t \in Threads |-> Nil]
    /\ path = [t \in Threads |-> Nil]
    /\ jt = [t \in Threads |-> NilJet]
    /\ err = [t \in Threads |-> Nil]
    /\ didRead = [t \in Threads |-> FALSE]
    /\ writesAtCall = [t \in Threads |-> 0]
    /\ held = [t \in Threads |-> NilTemplate]
    /\ fname = [t \in Threads |-> Nil]
    /\ ffn = [t \in Threads |-> Nil]
    /\ todo = [t \in Threads |-> {}]
    /\ batch = [t \in Threads |-> NoBatch]
    /\ regAtCall = [t \in Threads |-> NewSetGlobals]
    /\ epochAtCall = [t \in Threads |-> NoEpoch]
    /\ targ = [t \in Threads |-> NilTemplate]
    /\ ctx = [t \in Threads |-> Nil]
    /\ buf = [t \in Threads |-> <<>>]
    /\ idx = [t \in Threads |-> 0]
    /\ rerr = [t \in Threads |-> Nil]
    /\ rout = [t \in Threads |-> NoRender]

\* No library function is called outside the engine.
NoCall == called = Nil /\ args = <<>> /\ ret = <<>>

\* The registries as shipped: map literals without an entry.
ShippedTypes == <<>>

\* No file written, no error returned.
NoFile == [path |-> "", content |-> <<>>]
NoFailure == [msg |-> "", cause |-> ""]

\* No command of the command line tool runs.
NoCommand ==
    /\ types = ShippedTypes
    /\ registered = ShippedTypes
    /\ cmd = [name |-> Nil]
    /\ cpc = "done"
    /\ cdata = Nil
    /\ stdout = <<>>
    /\ outFile = NoFile
    /\ cerr = NoFailure
    /\ steps = <<>>

\* The shared engine runs in either mode.
Init ==
    /\ InitWith({m \in [Engines -> BOOLEAN] : \A e \in Engines \ Shared : ~m[e]})
    /\ NoCall
    /\ NoCommand

\* ------------------------------------------------------------------ e.mu

\* e.mu.RLock() succeeds when no writer holds or waits for the lock.
CanRLock(e) == muWriter[e] = Nil

\* e.mu.Lock() first excludes other writers and later readers ...
CanAnnounceLock(e) == muWriter[e] = Nil

\* A lock whose writer does not wait for the readers.
CanAcquireLock_Always(e) == TRUE

\* ... and then waits until the readers that hold the lock have left.
CanAcquireLock(e) == muReaders[e] = {}

\* ------------------------------------------------------------------ Load

\* NewJetEngine forgets the option: every set caches.
InDevelopmentMode_Dropped(e) == FALSE

\* Whether NewJetEngine made the engine's set with jet.InDevelopmentMode().
InDevelopmentMode(e) == developmentMode[e]

\* GetTemplate never finds a cached template.
CacheHit_Never(e, p) == FALSE

\* Whether GetTemplate answers from the set's cache.
CacheHit(e, p) == ~InDevelopmentMode(e) /\ setCache[e][p] # NilJet

\* A caller's engine.Load(p) takes e.mu.RLock() and enters
\* e.set.GetTemplate(path): outside development mode the set looks the path
\* up in its cache and returns the cached template.
LoadBegin(t, e, p) ==
    /\ pc[t] = "idle"
    /\ CanRLock(e)
    /\ ops' = ops + 1
    /\ muReaders' = [muReaders EXCEPT ![e] = @ \cup {t}]
    /\ eng' = [eng EXCEPT ![t] = e]
    /\ path' = [path EXCEPT ![t] = p]
    /\ IF CacheHit(e, p)
       THEN /\ jt' = [jt EXCEPT ![t] = setCache[e][p]]
            /\ pc' = [pc EXCEPT ![t] = "load_ret"]
       ELSE /\ jt' = jt
            /\ pc' = [pc EXCEPT ![t] = "load_read"]
    /\ writesAtCall' = [writesAtCall EXCEPT ![t] = writes]
    /\ UNCHANGED <<engineVars, muWriter, envVars, heap, err, didRead, held,
                   addVars, renderVars, epochAtCall>>
    /\ UNCHANGED <<callVars, cliVars>>

\* What parsing a file yields: a compiled template or the cause of failure.
Compile(e, p, content, addr) ==
    IF content.kind = "absent" THEN [jet |-> NilJet, err |-> CauseNotFound]
    ELSE IF content.kind = "malformed" THEN [jet |-> NilJet, err |-> CauseParse]
    ELSE [jet |-> [id |-> addr, set |-> e, path |-> p, src |-> content.calls],
          err |-> Nil]

\* Where a Load goes after the loader: to the cache insert outside
\* development mode when the parse succeeded, else straight to its return.
AfterRead(e, c) ==
    IF c.err = Nil /\ ~InDevelopmentMode(e) THEN "load_put" ELSE "load_ret"

\* GetTemplate, second half, in a set that caches a failed parse as well.
LoadRead_StoresFailure(t) ==
    /\ pc[t] = "load_read"
    /\ LET c == Compile(eng[t], path[t], fs[path[t]], heap) IN
       /\ jt' = [jt EXCEPT ![t] = c.jet]
       /\ err' = [err EXCEPT ![t] = c.err]
       /\ heap' = IF c.err = Nil THEN heap + 1 ELSE heap
       /\ pc' = [pc EXCEPT ![t] = AfterRead(eng[t], c)]
       /\ setCache' = IF c.err = Nil THEN setCache
                      ELSE [setCache EXCEPT ![eng[t]][path[t]] =
                                [id |-> -1, set |-> eng[t], path |-> path[t],
                                 src |-> <<>>]]
    /\ didRead' = [didRead EXCEPT ![t] = TRUE]
    /\ UNCHANGED <<developmentMode, setGlobals, funcs, regEpoch, replaced,
                   muVars, envVars, ops, eng, path, writesAtCall, held,
                   addVars, renderVars, epochAtCall>>
    /\ UNCHANGED <<callVars, cliVars>>

\* GetTemplate, second half: the loader reads the file and the set parses it.
LoadRead(t) ==
    /\ pc[t] = "load_read"
    /\ LET c == Compile(eng[t], path[t], fs[path[t]], heap) IN
       /\ jt' = [jt EXCEPT ![t] = c.jet]
       /\ err' = [err EXCEPT ![t] = c.err]
       /\ heap' = IF c.err = Nil THEN heap + 1 ELSE heap
       /\ pc' = [pc EXCEPT ![t] = AfterRead(eng[t], c)]
    /\ didRead' = [didRead EXCEPT ![t] = TRUE]
    /\ UNCHANGED <<engineVars, muVars, envVars, ops, eng, path, writesAtCall,
                   held, addVars, renderVars, epochAtCall>>
    /\ UNCHANGED <<callVars, cliVars>>

\* The set's cache after Put(path, t).
CachePut(cache, p, tmpl) == [cache EXCEPT ![p] = tmpl]

\* GetTemplate, end: the parsed template is put into the set's cache.
LoadCachePut(t) ==
    /\ pc[t] = "load_put"
    /\ setCache' = [setCache EXCEPT ![eng[t]] = CachePut(@, path[t], jt[t])]
    /\ replaced' = [replaced EXCEPT ![eng[t]][path[t]] =
                        @ \/ setCache[eng[t]][path[t]] # NilJet]
    /\ pc' = [pc EXCEPT ![t] = "load_ret"]
    /\ UNCHANGED <<developmentMode, setGlobals, funcs, regEpoch, muVars,
                   envVars, heap, ops, eng, loadVars, addVars, renderVars,
                   epochAtCall>>
    /\ UNCHANGED <<callVars, cliVars>>

\* The error Load returns for a failed GetTemplate: path and cause.
LoadError(p, cause) == [path |-> p, cause |-> cause]

\* The &Template{Name: path, Path: path, jet: tmpl} Load returns.
NewTemplate(addr, p, tmpl) == [id |-> addr, Name |-> p, Path |-> p, jet |-> tmpl]

\* What Load returns: (nil, error) or (&Template{...}, nil).
LoadResult(t) ==
    IF err[t] # Nil
    THEN [tmpl |-> NilTemplate, err |-> LoadError(path[t], err[t])]
    ELSE [tmpl |-> NewTemplate(heap, path[t], jt[t]), err |-> NoError]

\* A Load without its deferred e.mu.RUnlock().
LoadReturn_NoUnlock(t) ==
    /\ pc[t] = "load_ret"
    /\ held' = [held EXCEPT ![t] = LoadResult(t).tmpl]
    /\ heap' = IF err[t] # Nil THEN heap ELSE heap + 1
    /\ jt' = [jt EXCEPT ![t] = NilJet]
    /\ err' = [err EXCEPT ![t] = Nil]
    /\ didRead' = [didRead EXCEPT ![t] = FALSE]
    /\ writesAtCall' = [writesAtCall EXCEPT ![t] = 0]
    /\ eng' = [eng EXCEPT ![t] = Nil]
    /\ path' = [path EXCEPT ![t] = Nil]
    /\ pc' = [pc EXCEPT ![t] = "idle"]
    /\ UNCHANGED <<engineVars, muVars, envVars, ops, addVars, renderVars,
                   epochAtCall>>
    /\ UNCHANGED <<callVars, cliVars>>

\* Load returns to its caller, which keeps the result in its variable; the
\* deferred e.mu.RUnlock() runs on either path.
LoadReturn(t) ==
    /\ pc[t] = "load_ret"
    /\ held' = [held EXCEPT ![t] = LoadResult(t).tmpl]
    /\ heap' = IF err[t] # Nil THEN heap ELSE heap + 1
    /\ muReaders' = [muReaders EXCEPT ![eng[t]] = @ \ {t}]
    /\ jt' = [jt EXCEPT ![t] = NilJet]
    /\ err' = [err EXCEPT ![t] = Nil]
    /\ didRead' = [didRead EXCEPT ![t] = FALSE]
    /\ writesAtCall' = [writesAtCall EXCEPT ![t] = 0]
    /\ eng' = [eng EXCEPT ![t] = Nil]
    /\ path' = [path EXCEPT ![t] = Nil]
    /\ pc' = [pc EXCEPT ![t] = "idle"]
    /\ UNCHANGED <<engineVars, muWriter, envVars, ops, addVars, renderVars,
                   epochAtCall>>
    /\ UNCHANGED <<callVars, cliVars>>

\* The environment rewrites, removes or corrupts a template file.
WriteFile(p, content) ==
    /\ writes < MaxWrites
    /\ fs[p] # content
    /\ fs' = [fs EXCEPT ![p] = content]
    /\ writes' = writes + 1
    /\ UNCHANGED <<engineVars, muVars, heap, ops, pc, eng, loadVars, addVars,
                   renderVars, epochAtCall>>
    /\ UNCHANGED <<callVars, cliVars>>

\* ---------------------------------------------------------------- Render

ErrInvalidTemplate == "invalid template"
ErrRenderTemplate == "render template"

\* A function whose result depends on how often the engine has been called.
Apply_Counting(fn, data) == <<fn, data, ops>>

\* What calling a registered function on the data yields.
Apply(fn, data) == <<fn, data>>

\* Render's guard: tmpl == nil || tmpl.jet == nil.
InvalidTemplate(tmpl) == tmpl = NilTemplate \/ tmpl.jet = NilJet

\* Templates a caller can pass to Render: nil, one without a compiled
\* program, and any template some Load has returned to a caller.
RenderArgs == {NilTemplate, EmptyTemplate} \cup {held[u] : u \in Threads}

\* A caller starts e.Render(tmpl, data). Render never reads its receiver e
\* and takes no lock: an invalid template returns at once, any other goes on
\* to Execute.
CallRender(t, e, tmpl, data) ==
    /\ pc[t] = "idle"
    /\ ops' = ops + 1
    /\ eng' = [eng EXCEPT ![t] = e]
    /\ targ' = [targ EXCEPT ![t] = tmpl]
    /\ ctx' = [ctx EXCEPT ![t] = data]
    /\ buf' = [buf EXCEPT ![t] = <<>>]
    /\ idx' = [idx EXCEPT ![t] = 1]
    /\ IF InvalidTemplate(tmpl)
       THEN /\ rerr' = [rerr EXCEPT ![t] = ErrInvalidTemplate]
            /\ pc' = [pc EXCEPT ![t] = "render_ret"]
            /\ epochAtCall' = [epochAtCall EXCEPT ![t] = NoEpoch]
       ELSE /\ rerr' = [rerr EXCEPT ![t] = Nil]
            /\ pc' = [pc EXCEPT ![t] = "render_exec"]
            /\ epochAtCall' = [epochAtCall EXCEPT ![t] = regEpoch[tmpl.jet.set]]
    /\ UNCHANGED <<engineVars, muVars, envVars, heap, loadVars, addVars, rout>>
    /\ UNCHANGED <<callVars, cliVars>>

\* A registry that is one per process: every template resolves its names in
\* the globals of the same set.
Resolve_ProcessWide(tmpl, name) ==
    setGlobals[CHOOSE e \in Engines : e \notin Shared][name]

\* The function a template's call of name resolves to: the binding in the
\* globals of the set that compiled the template, at the time of the call.
Resolve(tmpl, name) == setGlobals[tmpl.jet.set][name]

\* An Execute that records each function it resolves in e.funcs.
RenderExec_Registers(t) ==
    /\ pc[t] = "render_exec"
    /\ LET name == targ[t].jet.src[idx[t]]
           fn == Resolve(targ[t], name) IN
       IF fn = Nil
       THEN /\ rerr' = [rerr EXCEPT ![t] = ErrRenderTemplate]
            /\ pc' = [pc EXCEPT ![t] = "render_ret"]
            /\ UNCHANGED <<buf, idx, funcs>>
       ELSE /\ buf' = [buf EXCEPT ![t] = Append(@, Apply(fn, ctx[t]))]
            /\ idx' = [idx EXCEPT ![t] = @ + 1]
            /\ pc' = [pc EXCEPT ![t] = IF idx[t] = Len(targ[t].jet.src)
                                       THEN "render_ret" ELSE "render_exec"]
            /\ funcs' = [funcs EXCEPT ![targ[t].jet.set][name] = fn]
            /\ rerr' = rerr
    /\ UNCHANGED <<developmentMode, setCache, setGlobals, regEpoch, replaced,
                   muVars, envVars, heap, ops, eng, loadVars, addVars, targ,
                   ctx, rout, epochAtCall>>
    /\ UNCHANGED <<callVars, cliVars>>

\* tmpl.jet.Execute(&buf, vars, data), one call of the template: the name is
\* resolved in the set's globals and the function's result is written to the
\* buffer; a name that is not bound ends the execution with an error.
RenderExec(t) ==
    /\ pc[t] = "render_exec"
    /\ LET name == targ[t].jet.src[idx[t]]
           fn == Resolve(targ[t], name) IN
       IF fn = Nil
       THEN /\ rerr' = [rerr EXCEPT ![t] = ErrRenderTemplate]
            /\ pc' = [pc EXCEPT ![t] = "render_ret"]
            /\ UNCHANGED <<buf, idx>>
       ELSE /\ buf' = [buf EXCEPT ![t] = Append(@, Apply(fn, ctx[t]))]
            /\ idx' = [idx EXCEPT ![t] = @ + 1]
            /\ pc' = [pc EXCEPT ![t] = IF idx[t] = Len(targ[t].jet.src)
                                       THEN "render_ret" ELSE "render_exec"]
            /\ rerr' = rerr
    /\ UNCHANGED <<engineVars, muVars, envVars, heap, ops, eng, loadVars,
                   addVars, targ, ctx, rout, epochAtCall>>
    /\ UNCHANGED <<callVars, cliVars>>

\* The registrations applied to the set of the template being rendered.
RenderEpoch(t) ==
    IF InvalidTemplate(targ[t]) THEN NoEpoch ELSE regEpoch[targ[t].jet.set]

\* A Render that returns what is in its buffer on either path.
RenderResult_Partial(t) ==
    [text |-> buf[t],
     err |-> rerr[t],
     jet |-> targ[t].jet.id,
     src |-> targ[t].jet.src,
     set |-> targ[t].jet.set,
     ctx |-> ctx[t],
     stable |-> epochAtCall[t] = RenderEpoch(t),
     to |-> RenderEpoch(t)]

\* What Render returns, ("", error) or (buf.String(), nil), with the
\* template, the data and the registry it was rendered against.
RenderResult(t) ==
    [text |-> IF rerr[t] # Nil THEN <<>> ELSE buf[t],
     err |-> rerr[t],
     jet |-> targ[t].jet.id,
     src |-> targ[t].jet.src,
     set |-> targ[t].jet.set,
     ctx |-> ctx[t],
     stable |-> epochAtCall[t] = RenderEpoch(t),
     to |-> RenderEpoch(t)]

\* Render returns to its caller.
RenderReturn(t) ==
    /\ pc[t] = "render_ret"
    /\ rout' = [rout EXCEPT ![t] = RenderResult(t)]
    /\ buf' = [buf EXCEPT ![t] = <<>>]
    /\ idx' = [idx EXCEPT ![t] = 0]
    /\ rerr' = [rerr EXCEPT ![t] = Nil]
    /\ targ' = [targ EXCEPT ![t] = NilTemplate]
    /\ ctx' = [ctx EXCEPT ![t] = Nil]
    /\ epochAtCall' = [epochAtCall EXCEPT ![t] = NoEpoch]
    /\ eng' = [eng EXCEPT ![t] = Nil]
    /\ pc' = [pc EXCEPT ![t] = "idle"]
    /\ UNCHANGED <<engineVars, muVars, envVars, heap, ops, loadVars, addVars>>
    /\ UNCHANGED <<callVars, cliVars>>

\* --------------------------------------------------------------- AddFunc

\* A table that keeps the first binding of a name.
Bind_KeepFirst(table, name, fn) ==
    IF table[name] # Nil THEN table ELSE [table EXCEPT ![name] = fn]

\* A table that is emptied by every binding.
Bind_Fresh(table, name, fn) ==
    [n \in DOMAIN table |-> IF n = name THEN fn ELSE Nil]

\* A name-to-function table after name is bound to fn: insert or replace.
Bind(table, name, fn) == [table EXCEPT ![name] = fn]

\* e.mu.Lock(), first half, of AddFunc(name, fn) on e: the writer announces
\* itself, which keeps other writers and later readers out.
LockForAddFunc(t, e, name, fn) ==
    /\ CanAnnounceLock(e)
    /\ muWriter' = [muWriter EXCEPT ![e] = t]
    /\ eng' = [eng EXCEPT ![t] = e]
    /\ fname' = [fname EXCEPT ![t] = name]
    /\ ffn' = [ffn EXCEPT ![t] = fn]
    /\ pc' = [pc EXCEPT ![t] = "af_wait"]

\* A caller starts engine.AddFunc(name, fn).
AddFuncBegin(t, e, name, fn) ==
    /\ pc[t] = "idle"
    /\ ops' = ops + 1
    /\ LockForAddFunc(t, e, name, fn)
    /\ UNCHANGED <<engineVars, muReaders, envVars, heap, loadVars, todo, batch,
                   regAtCall, renderVars, epochAtCall>>
    /\ UNCHANGED <<callVars, cliVars>>

\* e.mu.Lock(), second half: the readers have left and the writer holds the
\* lock; then e.funcs[name] = fn; e.set.AddGlobal(name, fn)
AddFuncSet(t) ==
    /\ pc[t] = "af_wait"
    /\ CanAcquireLock(eng[t])
    /\ funcs' = [funcs EXCEPT ![eng[t]] = Bind(@, fname[t], ffn[t])]
    /\ setGlobals' = [setGlobals EXCEPT ![eng[t]] = Bind(@, fname[t], ffn[t])]
    /\ regEpoch' = [regEpoch EXCEPT ![eng[t]][fname[t]] = @ + 1]
    /\ pc' = [pc EXCEPT ![t] = "af_unlock"]
    /\ UNCHANGED <<developmentMode, setCache, replaced, muVars, envVars, heap, ops, eng,
                   loadVars, addVars, renderVars, epochAtCall>>
    /\ UNCHANGED <<callVars, cliVars>>

\* Whether the thread's AddFunc was called by AddFuncs.
InBatch(t) == batch[t] # NoBatch

\* An AddFunc that leaves the lock to the AddFuncs that called it.
AddFuncUnlock_HeldByBatch(t) ==
    /\ pc[t] = "af_unlock"
    /\ muWriter' = IF InBatch(t) THEN muWriter
                   ELSE [muWriter EXCEPT ![eng[t]] = Nil]
    /\ pc' = [pc EXCEPT ![t] = IF InBatch(t) THEN "afs_loop" ELSE "idle"]
    /\ eng' = [eng EXCEPT ![t] = IF InBatch(t) THEN eng[t] ELSE Nil]
    /\ fname' = [fname EXCEPT ![t] = Nil]
    /\ ffn' = [ffn EXCEPT ![t] = Nil]
    /\ UNCHANGED <<engineVars, muReaders, envVars, heap, ops, loadVars, todo,
                   batch, regAtCall, renderVars, epochAtCall>>
    /\ UNCHANGED <<callVars, cliVars>>

\* The deferred e.mu.Unlock(); AddFunc returns, to AddFuncs' loop or the caller.
AddFuncUnlock(t) ==
    /\ pc[t] = "af_unlock"
    /\ muWriter' = [muWriter EXCEPT ![eng[t]] = Nil]
    /\ pc' = [pc EXCEPT ![t] = IF InBatch(t) THEN "afs_loop" ELSE "idle"]
    /\ eng' = [eng EXCEPT ![t] = IF InBatch(t) THEN eng[t] ELSE Nil]
    /\ fname' = [fname EXCEPT ![t] = Nil]
    /\ ffn' = [ffn EXCEPT ![t] = Nil]
    /\ UNCHANGED <<engineVars, muReaders, envVars, heap, ops, loadVars, todo,
                   batch, regAtCall, renderVars, epochAtCall>>
    /\ UNCHANGED <<callVars, cliVars>>

\* -------------------------------------------------------------- AddFuncs

\* A caller starts engine.AddFuncs(m).
CallAddFuncs(t, e, m) ==
    /\ pc[t] = "idle"
    /\ ops' = ops + 1
    /\ eng' = [eng EXCEPT ![t] = e]
    /\ batch' = [batch EXCEPT ![t] = m]
    /\ todo' = [todo EXCEPT ![t] = Keys(m)]
    /\ regAtCall' = [regAtCall EXCEPT ![t] = setGlobals[e]]
    /\ epochAtCall' = [epochAtCall EXCEPT ![t] = regEpoch[e]]
    /\ pc' = [pc EXCEPT ![t] = "afs_loop"]
    /\ UNCHANGED <<engineVars, muVars, envVars, heap, loadVars, fname, ffn,
                   renderVars>>
    /\ UNCHANGED <<callVars, cliVars>>

\* A range that stops after the first entry.
AddFuncsNext_Once(t, name) ==
    /\ pc[t] = "afs_loop"
    /\ name \in todo[t]
    /\ todo' = [todo EXCEPT ![t] = {}]
    /\ LockForAddFunc(t, eng[t], name, batch[t][name])
    /\ UNCHANGED <<engineVars, muReaders, envVars, heap, ops, loadVars, batch,
                   regAtCall, renderVars, epochAtCall>>
    /\ UNCHANGED <<callVars, cliVars>>

\* for name, fn := range funcs { e.AddFunc(name, fn) }: the range visits the
\* entries of the map in an order the language leaves open, and calls
\* AddFunc for each.
AddFuncsNext(t, name) ==
    /\ pc[t] = "afs_loop"
    /\ name \in todo[t]
    /\ todo' = [todo EXCEPT ![t] = @ \ {name}]
    /\ LockForAddFunc(t, eng[t], name, batch[t][name])
    /\ UNCHANGED <<engineVars, muReaders, envVars, heap, ops, loadVars, batch,
                   regAtCall, renderVars, epochAtCall>>
    /\ UNCHANGED <<callVars, cliVars>>

\* The range is over: AddFuncs returns.
AddFuncsReturn(t) ==
    /\ pc[t] = "afs_loop"
    /\ todo[t] = {}
    /\ batch' = [batch EXCEPT ![t] = NoBatch]
    /\ regAtCall' = [regAtCall EXCEPT ![t] = NewSetGlobals]
    /\ epochAtCall' = [epochAtCall EXCEPT ![t] = NoEpoch]
    /\ eng' = [eng EXCEPT ![t] = Nil]
    /\ pc' = [pc EXCEPT ![t] = "idle"]
    /\ UNCHANGED <<engineVars, muVars, envVars, heap, ops, loadVars, fname,
                   ffn, todo, renderVars>>
    /\ UNCHANGED <<callVars, cliVars>>

\* ------------------------------------------------------------- behaviours

\* The data the callers that share the engine render with.
SharedData == {"c1"}

\* A caller starts a call on the shared engine.
Call ==
    \/ \E t \in Threads, e \in Shared, p \in Paths : LoadBegin(t, e, p)
    \/ \E t \in Threads, e \in Shared, tmpl \in RenderArgs, d \in SharedData :
          CallRender(t, e, tmpl, d)
    \/ \E t \in Threads, e \in Shared, n \in RegNames, f \in CustomFns :
          AddFuncBegin(t, e, n, f)
    \/ \E t \in Threads, e \in Shared, m \in BatchMaps : CallAddFuncs(t, e, m)

\* A call in progress takes its next step.
Step ==
    \/ \E t \in Threads : LoadRead(t)
    \/ \E t \in Threads : LoadCachePut(t)
    \/ \E t \in Threads : LoadReturn(t)
    \/ \E t \in Threads : RenderExec(t)
    \/ \E t \in Threads : RenderReturn(t)
    \/ \E t \in Threads : AddFuncSet(t)
    \/ \E t \in Threads : AddFuncUnlock(t)
    \/ \E t \in Threads, n \in RegNames : AddFuncsNext(t, n)
    \/ \E t \in Threads : AddFuncsReturn(t)

\* The environment changes a template file.
Write == \E p \in ChangingPaths, c \in FileContents : WriteFile(p, c)

\* All four operations of the engine on a template directory that stays as
\* it is.
Next == (ops < MaxOps /\ Call) \/ Step

Spec == Init /\ [][Next]_vars

\* Loads of the engine while the template directory changes.
NextLoad ==
    \/ ops < MaxLoads /\ \E t \in Threads, e \in Shared, p \in ChangingPaths :
                            LoadBegin(t, e, p)
    \/ \E t \in Threads : LoadRead(t)
    \/ \E t \in Threads : LoadCachePut(t)
    \/ \E t \in Threads : LoadReturn(t)
    \/ Write

SpecLoad == Init /\ [][NextLoad]_vars

\* The next step of the call the thread is in.
StepOf(t) ==
    \/ LoadRead(t)
    \/ LoadCachePut(t)
    \/ LoadReturn(t)
    \/ RenderExec(t)
    \/ RenderReturn(t)
    \/ AddFuncSet(t)
    \/ AddFuncUnlock(t)
    \/ \E n \in RegNames : AddFuncsNext(t, n)
    \/ AddFuncsReturn(t)

\* The operations of the engine called by goroutines the scheduler runs
\* fairly: a call that can take its next step, and stays able to, takes it.
NextFair == (ops < MaxFairOps /\ Call) \/ \E t \in Threads : StepOf(t)

SpecFair == Init /\ [][NextFair]_vars /\ \A t \in Threads : WF_vars(StepOf(t))

\* The one caller of a behaviour in which no calls overlap.
Solo == "t1"

\* All four operations of the engine, called one after the other by a
\* single caller.
NextSolo ==
    \/ ops < MaxSoloOps /\ \E e \in Shared, p \in Paths : LoadBegin(Solo, e, p)
    \/ ops < MaxSoloOps /\ \E e \in Shared, tmpl \in RenderArgs, d \in Contexts :
                               CallRender(Solo, e, tmpl, d)
    \/ ops < MaxSoloOps /\ \E e \in Shared, n \in RegNames, f \in CustomFns :
                               AddFuncBegin(Solo, e, n, f)
    \/ ops < MaxSoloOps /\ \E e \in Shared, m \in SoloMaps :
                               CallAddFuncs(Solo, e, m)
    \/ LoadRead(Solo)
    \/ LoadCachePut(Solo)
    \/ LoadReturn(Solo)
    \/ RenderExec(Solo)
    \/ RenderReturn(Solo)
    \/ AddFuncSet(Solo)
    \/ AddFuncUnlock(Solo)
    \/ \E n \in RegNames : AddFuncsNext(Solo, n)
    \/ AddFuncsReturn(Solo)

SpecSolo == Init /\ [][NextSolo]_vars

\* All four operations, called one after the other by a single caller on
\* either of two engines; the caller may hand a template that one engine
\* loaded to the Render of the other.
NextTwo ==
    \/ ops < MaxTwoOps /\ \E e \in Engines, p \in Paths : LoadBegin(Solo, e, p)
    \/ ops < MaxTwoOps /\ \E e \in Engines, tmpl \in RenderArgs, d \in SharedData :
                              CallRender(Solo, e, tmpl, d)
    \/ ops < MaxTwoOps /\ \E e \in Engines, n \in RegNames, f \in CustomFns :
                              AddFuncBegin(Solo, e, n, f)
    \/ ops < MaxTwoOps /\ \E e \in Engines, m \in BatchMaps :
                              CallAddFuncs(Solo, e, m)
    \/ LoadRead(Solo)
    \/ LoadCachePut(Solo)
    \/ LoadReturn(Solo)
    \/ RenderExec(Solo)
    \/ RenderReturn(Solo)
    \/ AddFuncSet(Solo)
    \/ AddFuncUnlock(Solo)
    \/ \E n \in RegNames : AddFuncsNext(Solo, n)
    \/ AddFuncsReturn(Solo)

SpecTwo == Init /\ [][NextTwo]_vars

\* -------------------------------------------------------- library functions

\* Engines that nobody calls, while a program calls library functions.
InitLibrary == InitWith({[e \in Engines |-> FALSE]}) /\ NoCommand

\* A Go value in an interface{}: its dynamic type and the value.
GoValue(type, v) == [type |-> type, v |-> v]

\* The nil interface value.
GoNil == GoValue("nil", Nil)

\* Values a template passes to default: strings, numbers of the types the
\* switch names and of others, booleans, nil, a nil slice, a nil pointer.
Values ==
    {GoValue("string", ""), GoValue("string", "x"),
     GoValue("int", 0), GoValue("int", 1), GoValue("int", -1),
     GoValue("int64", 0), GoValue("int64", 1),
     GoValue("float64", 0), GoValue("float64", 1),
     GoValue("bool", FALSE), GoValue("bool", TRUE),
     GoNil,
     GoValue("int32", 0), GoValue("uint", 0), GoValue("float32", 0),
     GoValue("[]string", Nil), GoValue("*int", Nil)}

\* Defaults a template passes to default.
DefaultValues ==
    {GoValue("string", "N/A"), GoValue("int", 7), GoValue("bool", TRUE), GoNil}

\* v == c for an interface value v and a constant c: the constant is
\* converted to an interface value of its default type, and two interface
\* values are equal when their dynamic types are identical and their values
\* equal.
InterfaceEq(a, b) == a.type = b.type /\ a.v = b.v

\* The untyped constant 0 as an interface value: an int.
ConstZero == GoValue("int", 0)

\* Default(defaultValue, value): the type switch on value. In the case that
\* lists int, int64 and float64 the variable v keeps the type interface{}.
Default(defaultValue, value) ==
    CASE value.type = "string" ->
            IF value.v = "" THEN defaultValue ELSE value
      [] value.type \in {"int", "int64", "float64"} ->
            IF InterfaceEq(value, ConstZero) THEN defaultValue ELSE value
      [] value.type = "bool" ->
            IF ~value.v THEN defaultValue ELSE value
      [] value.type = "nil" -> defaultValue
      [] OTHER -> value

\* A template or a program calls Default(defaultValue, value).
CallDefault ==
    /\ called = Nil
    /\ called' = "Default"
    /\ ret' = Default(args[1], args[2])
    /\ UNCHANGED <<args, engineState, cliVars>>

\* Calls of Default on every pair of a default and a value.
InitDefault ==
    /\ InitLibrary
    /\ called = Nil
    /\ args \in DefaultValues \X Values
    /\ ret = GoNil

NextDefault == CallDefault

SpecDefault == InitDefault /\ [][NextDefault]_vars

\* ------------------------------------------------------- numeric helpers

\* A float64: a finite number, written as the fraction num/den with den > 0
\* (the rounding of float64 arithmetic is left out), or NaN, +Inf or -Inf.
Finite(num, den) == [class |-> "finite", num |-> num, den |-> den]
NaN == [class |-> "NaN", num |-> 0, den |-> 1]
PosInf == [class |-> "+Inf", num |-> 1, den |-> 1]
NegInf == [class |-> "-Inf", num |-> -1, den |-> 1]

\* The float64 of an integer constant of the source.
Const(n) == Finite(n, 1)

\* x < y, x == y, x > y and x >= y of float64: every comparison with NaN is
\* false, and the infinities lie beyond every finite number.
Less(x, y) ==
    CASE x.class = "NaN" \/ y.class = "NaN" -> FALSE
      [] x.class = "-Inf" -> y.class # "-Inf"
      [] y.class = "+Inf" -> x.class # "+Inf"
      [] x.class = "+Inf" \/ y.class = "-Inf" -> FALSE
      [] OTHER -> x.num * y.den < y.num * x.den
Equal(x, y) ==
    /\ x.class # "NaN" /\ y.class # "NaN"
    /\ x.class = y.class
    /\ x.class = "finite" => x.num * y.den = y.num * x.den
Greater(x, y) == Less(y, x)
GreaterEqual(x, y) == Greater(x, y) \/ Equal(x, y)

\* The greatest common divisor of two natural numbers, not both 0.
RECURSIVE GCD(_, _)
GCD(m, n) == IF n = 0 THEN m ELSE GCD(n, m % n)

\* The magnitude of an integer.
Magnitude(n) == IF n < 0 THEN -n ELSE n

\* The finite number num/den, den # 0, in lowest terms.
Fraction(num, den) ==
    LET g == GCD(Magnitude(num), Magnitude(den))
        sign == IF den < 0 THEN -1 ELSE 1
    IN Finite(sign * (num \div g), sign * (den \div g))

\* x / y of float64.
Quotient(x, y) ==
    CASE x.class = "NaN" \/ y.class = "NaN" -> NaN
      [] x.class # "finite" /\ y.class # "finite" -> NaN
      [] x.class # "finite" ->
            IF y.num = 0 THEN x
            ELSE IF (x.num < 0) = (y.num < 0) THEN PosInf ELSE NegInf
      [] y.class # "finite" -> Const(0)
      [] y.num = 0 ->
            IF x.num = 0 THEN NaN ELSE IF x.num > 0 THEN PosInf ELSE NegInf
      [] OTHER -> Fraction(x.num * y.den, x.den * y.num)

\* The amounts handed to the formatters are given in thousandths.
Thousandths == 1000
Amount(whole, frac) == Finite(whole * Thousandths + frac, Thousandths)

\* n/d, for n >= 0 and d > 0, rounded to the nearest integer.
RoundDiv(n, d) == IF 2 * (n % d) >= d THEN (n \div d) + 1 ELSE n \div d

\* fmt.Sprintf("%.2f", x / div) for an amount x and a divisor 1, 1000 or
\* 1000000: sign, integer part and two decimals of the nearest hundredth,
\* or the word for NaN and the infinities.
Sprintf2(x, div) ==
    IF x.class # "finite"
    THEN [neg |-> FALSE, whole |-> 0, cents |-> 0, word |-> x.class]
    ELSE LET h == RoundDiv(Magnitude(x.num), (x.den \div 100) * div)
         IN [neg |-> x.num < 0, whole |-> h \div 100, cents |-> h % 100,
             word |-> ""]

\* The thresholds and divisors of FormatCurrency.
Million == 1000000
Thousand == 1000

\* The text "$" + number + suffix.
Dollar(number, suffix) == [lead |-> "$", number |-> number, suffix |-> suffix]

\* A FormatCurrency that picks the suffix by the amount it is going to show.
FormatCurrency_Rounded(value) ==
    LET shown == Sprintf2(value, 1)
        big(n) == value.class = "+Inf" \/
                  (value.class = "finite" /\ ~shown.neg /\ shown.whole >= n)
    IN IF big(Million) THEN Dollar(Sprintf2(value, Million), "M")
       ELSE IF big(Thousand) THEN Dollar(Sprintf2(value, Thousand), "K")
       ELSE Dollar(shown, "")

\* FormatCurrency
FormatCurrency(value) ==
    IF GreaterEqual(value, Const(Million))
    THEN Dollar(Sprintf2(value, Million), "M")
    ELSE IF GreaterEqual(value, Const(Thousand))
    THEN Dollar(Sprintf2(value, Thousand), "K")
    ELSE Dollar(Sprintf2(value, 1), "")

\* The RSI levels of IsOverbought and IsOversold.
OverboughtLevel == 70
OversoldLevel == 30

\* An IsBullish that counts a price at the EMA as bullish.
IsBullish_OrEqual(price, ema) == GreaterEqual(price, ema)

\* IsBullish, IsBearish, IsOverbought, IsOversold
IsBullish(price, ema) == Greater(price, ema)
IsBearish(price, ema) == Less(price, ema)
IsOverbought(rsi) == Greater(rsi, Const(OverboughtLevel))
IsOversold(rsi) == Less(rsi, Const(OversoldLevel))

\* A Divide without its test of the divisor.
Divide_Unguarded(a, b) == Quotient(a, b)

\* Divide
Divide(a, b) == IF Equal(b, Const(0)) THEN Const(0) ELSE Quotient(a, b)

\* Amounts around the thresholds of FormatCurrency and the RSI levels, none
\* of them halfway between two hundredths (there the decimals printed
\* depend on the binary expansion of the float64).
Wholes == {0, 29, 30, 69, 70, 99, 999, 1000, 5500, 999999, 1000000, 1500000}
Fracs == {0, 1, 4, 6, 990, 994, 996, 999}
Amounts ==
    {Amount(w, f) : w \in Wholes, f \in Fracs}
        \cup {Amount(-w, -f) : w \in Wholes, f \in Fracs}
        \cup {NaN, PosInf, NegInf}

\* Operands of the helpers that take two numbers.
MaxOperand == 3
Operands ==
    {Finite(n, d) : n \in -MaxOperand..MaxOperand, d \in {1, 2}}
        \cup {NaN, PosInf, NegInf}

\* A template or a program calls one of the helpers on its arguments.
CallFormatCurrency ==
    /\ called = Nil /\ Len(args) = 1
    /\ called' = "FormatCurrency"
    /\ ret' = FormatCurrency(args[1])
    /\ UNCHANGED <<args, engineState, cliVars>>

CallIsOverbought ==
    /\ called = Nil /\ Len(args) = 1
    /\ called' = "IsOverbought"
    /\ ret' = IsOverbought(args[1])
    /\ UNCHANGED <<args, engineState, cliVars>>

CallIsOversold ==
    /\ called = Nil /\ Len(args) = 1
    /\ called' = "IsOversold"
    /\ ret' = IsOversold(args[1])
    /\ UNCHANGED <<args, engineState, cliVars>>

CallIsBullish ==
    /\ called = Nil /\ Len(args) = 2
    /\ called' = "IsBullish"
    /\ ret' = IsBullish(args[1], args[2])
    /\ UNCHANGED <<args, engineState, cliVars>>

CallIsBearish ==
    /\ called = Nil /\ Len(args) = 2
    /\ called' = "IsBearish"
    /\ ret' = IsBearish(args[1], args[2])
    /\ UNCHANGED <<args, engineState, cliVars>>

CallDivide ==
    /\ called = Nil /\ Len(args) = 2
    /\ called' = "Divide"
    /\ ret' = Divide(args[1], args[2])
    /\ UNCHANGED <<args, engineState, cliVars>>

\* Calls of the helpers on every amount and on every pair of operands.
InitNumeric ==
    /\ InitLibrary
    /\ called = Nil
    /\ args \in {<<x>> : x \in Amounts} \cup (Operands \X Operands)
    /\ ret = <<>>

NextNumeric ==
    \/ CallFormatCurrency
    \/ CallIsOverbought
    \/ CallIsOversold
    \/ CallIsBullish
    \/ CallIsBearish
    \/ CallDivide

SpecNumeric == InitNumeric /\ [][NextNumeric]_vars

\* ------------------------------------------------- documentation generator

\* Strings are sequences of characters. The texts of the struct tags:
StrRequired == <<"r", "e", "q", "u", "i", "r", "e", "d">>
StrUnrequired == <<"u", "n">> \o StrRequired
StrRequire == <<"r", "e", "q", "u", "i", "r", "e">>
StrCapRequired == <<"R", "e", "q", "u", "i", "r", "e", "d">>
StrNameOmitempty == <<"n", ",", "o">>
StrOmitempty == <<",", "o">>
StrDash == <<"-">>
StrTwoLines == <<"d", "\n", "e">>

\* A key of a struct tag: absent, or present with a value.
NoTag == [present |-> FALSE, value |-> <<>>]
TagOf(value) == [present |-> TRUE, value |-> value]
TagKeys == {"json", "doc", "description", "example", "schema"}
StructTag(json, doc, description, example, schema) ==
    [json |-> json, doc |-> doc, description |-> description,
     example |-> example, schema |-> schema]

\* reflect.StructField: Name, PkgPath (empty for an exported field), the
\* field type's String() and the tag.
StructField(Name, PkgPath, Type, Tag) ==
    [Name |-> Name, PkgPath |-> PkgPath, Type |-> Type, Tag |-> Tag]

\* The fields struct types are declared with.
FieldPool ==
    {StructField("A", "", "string",
         StructTag(TagOf(StrNameOmitempty), TagOf(<<"d">>), TagOf(<<"e">>),
                   TagOf(<<"x">>), TagOf(StrRequired))),
     StructField("B", "", "int", StructTag(NoTag, NoTag, NoTag, NoTag, NoTag)),
     StructField("c", "main", "int",
         StructTag(TagOf(<<"c">>), TagOf(<<"d">>), NoTag, NoTag,
                   TagOf(StrRequired))),
     StructField("D", "", "float64",
         StructTag(TagOf(StrOmitempty), TagOf(<<>>), TagOf(<<"e">>), NoTag,
                   TagOf(StrUnrequired))),
     StructField("E", "", "[]string",
         StructTag(TagOf(StrDash), NoTag, TagOf(<<"e">>), TagOf(<<"x">>),
                   TagOf(StrRequire))),
     StructField("G", "", "bool",
         StructTag(TagOf(<<>>), TagOf(StrTwoLines), NoTag, NoTag,
                   TagOf(StrCapRequired)))}

\* reflect.Type of a struct, of a pointer, of anything else.
StructOf(name, fields) == [kind |-> "struct", name |-> name, fields |-> fields]
PtrTo(elem) == [kind |-> "ptr", elem |-> elem]
KindOnly(kind) == [kind |-> kind]

\* The struct types: fields of distinct names, in every declaration order.
FieldLists ==
    UNION {{f \in [1..n -> FieldPool] :
               \A i, j \in 1..n : i # j => f[i].Name # f[j].Name} :
           n \in 0..MaxFields}
RecordTypes == {StructOf("T", f) : f \in FieldLists}

\* Types whose underlying value is no record: scalars, a map, a pointer to
\* a scalar, a pointer to a pointer to a struct.
NonRecordTypes ==
    {KindOnly("int"), KindOnly("string"), KindOnly("map"), KindOnly("slice"),
     PtrTo(KindOnly("int")), PtrTo(PtrTo(StructOf("T", <<>>)))}

\* reflect.TypeOf(nil): the nil Type.
NilType == KindOnly("nil Type")

\* What a caller hands to Generate, by its dynamic type: a struct, a pointer
\* to a struct, a value that is no record, or nil.
Inputs ==
    RecordTypes \cup {PtrTo(T) : T \in RecordTypes} \cup NonRecordTypes
        \cup {NilType}

\* field.Tag.Get(key): the value of the key, "" when the key is absent.
Get(tag, key) == IF tag[key].present THEN tag[key].value ELSE <<>>

\* strings.Split(s, sep) for a separator of one character.
RECURSIVE SplitFrom(_, _, _, _)
SplitFrom(s, sep, parts, part) ==
    IF s = <<>> THEN Append(parts, part)
    ELSE IF Head(s) = sep
         THEN SplitFrom(Tail(s), sep, Append(parts, part), <<>>)
         ELSE SplitFrom(Tail(s), sep, parts, Append(part, Head(s)))
Split(s, sep) == SplitFrom(s, sep, <<>>, <<>>)

\* strings.Contains(s, substr)
Contains(s, substr) ==
    \E i \in 0..(Len(s) - Len(substr)) :
        SubSeq(s, i + 1, i + Len(substr)) = substr

\* A generator that documents unexported fields as well.
IsExported_All(field) == TRUE

\* field.IsExported()
IsExported(field) == field.PkgPath = ""

\* An extractJSONName that returns the tag with its options.
extractJSONName_Whole(field) == Get(field.Tag, "json")

\* extractJSONName
extractJSONName(field) ==
    LET tag == Get(field.Tag, "json") IN
    IF tag = <<>> THEN <<>> ELSE Split(tag, ",")[1]

\* An extractFieldDoc that tries the description tag first.
extractFieldDoc_DescriptionFirst(field) ==
    IF Get(field.Tag, "description") # <<>> THEN Get(field.Tag, "description")
    ELSE IF Get(field.Tag, "doc") # <<>> THEN Get(field.Tag, "doc")
         ELSE <<>>

\* extractFieldDoc
extractFieldDoc(field) ==
    IF Get(field.Tag, "doc") # <<>> THEN Get(field.Tag, "doc")
    ELSE IF Get(field.Tag, "description") # <<>>
         THEN Get(field.Tag, "description")
         ELSE <<>>

\* extractExample
extractExample(field) ==
    IF Get(field.Tag, "example") # <<>> THEN Get(field.Tag, "example") ELSE <<>>

\* An isRequired that takes the schema tag for the one word.
isRequired_Exact(field) == Get(field.Tag, "schema") = StrRequired

\* isRequired
isRequired(field) == Contains(Get(field.Tag, "schema"), StrRequired)

\* extractTypeDoc: not implemented, always "".
extractTypeDoc(typ) == <<>>

\* The FieldDoc Generate builds for a field.
FieldDoc(field) ==
    [Name |-> field.Name,
     JSONName |-> extractJSONName(field),
     Type |-> field.Type,
     Description |-> extractFieldDoc(field),
     Example |-> extractExample(field),
     Required |-> isRequired(field)]

\* The loop of Generate over the fields i, i+1, ... of typ.
RECURSIVE GenerateFields(_, _, _)
GenerateFields(typ, i, fields) ==
    IF i > Len(typ.fields) THEN fields
    ELSE IF ~IsExported(typ.fields[i])
         THEN GenerateFields(typ, i + 1, fields)
         ELSE GenerateFields(typ, i + 1, Append(fields, FieldDoc(typ.fields[i])))

\* The nil *TypeDoc.
NilDoc == [Name |-> Nil, Description |-> <<>>, Fields |-> <<>>]

\* fmt.Errorf("expected struct, got %s", typ.Kind())
ExpectedStruct(kind) == <<"expected struct, got", kind>>

\* Generate(v), by the dynamic type of v. typ.Kind() on the nil Type that
\* reflect.TypeOf(nil) returns is a nil dereference: the call panics.
Generate(v) ==
    IF v = NilType THEN [doc |-> NilDoc, err |-> <<>>, panic |-> TRUE]
    ELSE LET typ == IF v.kind = "ptr" THEN v.elem ELSE v IN
         IF typ.kind # "struct"
         THEN [doc |-> NilDoc, err |-> ExpectedStruct(typ.kind), panic |-> FALSE]
         ELSE [doc |-> [Name |-> typ.name,
                        Description |-> extractTypeDoc(typ),
                        Fields |-> GenerateFields(typ, 1, <<>>)],
               err |-> <<>>, panic |-> FALSE]

\* formatExample of the string Generate stored as the field's example.
formatExample(example) == IF example = <<>> THEN <<>> ELSE example

\* A Template Variable cell that shows the JSON name "-" like any other.
TemplateVar_NoDash(field) ==
    IF field.JSONName # <<>>
    THEN <<"{{.", field.Name, "}}", " or ", "{{.">> \o field.JSONName \o <<"}}">>
    ELSE <<"{{.", field.Name, "}}">>

\* The text of the Template Variable cell of a field.
TemplateVar(field) ==
    IF field.JSONName # <<>> /\ field.JSONName # StrDash
    THEN <<"{{.", field.Name, "}}", " or ", "{{.">> \o field.JSONName \o <<"}}">>
    ELSE <<"{{.", field.Name, "}}">>

\* The character U+0060 that encloses code in Markdown.
Backtick == "[U+0060]"

\* The prefix of the description of a required field: U+2713 and a space.
CheckMark == "[U+2713] "

\* The table row of a field, as ExportMarkdown formats it.
TableRow(field) ==
    <<"| ", field.Name, " | ", field.Type, " | ", Backtick>>
        \o TemplateVar(field) \o <<Backtick, " | ">>
        \o (IF field.Required THEN <<CheckMark>> ELSE <<>>)
        \o field.Description \o <<" | ", Backtick>>
        \o formatExample(field.Example) \o <<Backtick, " |", "\n">>

\* The loop of ExportMarkdown over the fields i, i+1, ...
RECURSIVE TableRows(_, _, _)
TableRows(fields, i, text) ==
    IF i > Len(fields) THEN text
    ELSE TableRows(fields, i + 1, text \o TableRow(fields[i]))

\* The two lines of the table header.
TableHeader ==
    <<"| Field | Type | Template Variable | Description | Example |", "\n",
      "|-------|------|-------------------|-------------|----------|", "\n">>

\* ExportMarkdown(doc): the text, as a sequence of characters and of pieces
\* that hold no line break, and a nil error.
ExportMarkdown(doc) ==
    LET title == <<"# ", doc.Name, "\n", "\n">>
        description == IF doc.Description # <<>>
                       THEN doc.Description \o <<"\n", "\n">> ELSE <<>>
    IN [text |-> TableRows(doc.Fields, 1, title \o description \o TableHeader),
        err |-> <<>>]

\* A program calls Generate(v).
CallGenerate ==
    /\ called = Nil
    /\ called' = "Generate"
    /\ ret' = Generate(args[1])
    /\ UNCHANGED <<args, engineState, cliVars>>

\* The program hands the TypeDoc it got to ExportMarkdown.
CallExportMarkdown ==
    /\ called = "Generate"
    /\ ~ret.panic /\ ret.err = <<>>
    /\ called' = "ExportMarkdown"
    /\ args' = <<ret.doc>>
    /\ ret' = ExportMarkdown(ret.doc)
    /\ UNCHANGED <<engineState, cliVars>>

\* Generate on every input, ExportMarkdown on every TypeDoc it returns.
InitDoc ==
    /\ InitLibrary
    /\ called = Nil
    /\ args \in {<<v>> : v \in Inputs}
    /\ ret = <<>>

NextDoc == CallGenerate \/ CallExportMarkdown

SpecDoc == InitDoc /\ [][NextDoc]_vars

\* ----------------------------------------------------- terminal display

\* A Go string is a sequence of bytes, the UTF-8 encoding of its characters:
\* an ASCII character is one byte, a character like U+00E9 a lead byte and a
\* continuation byte.
AsciiByte == "a"
LeadByte == "C3"
ContinuationByte == "A9"

\* No example: the nil interface value.
NilExample == GoValue("nil", <<>>)

\* n ASCII characters, and m two-byte characters.
AsciiChars(n) == [i \in 1..n |-> AsciiByte]
WideChars(n) == [i \in 1..(2 * n) |-> IF i % 2 = 1 THEN LeadByte ELSE ContinuationByte]

\* The examples of the fields: none (nil), and the strings of up to MaxAscii
\* ASCII characters before or after up to MaxWide two-byte characters.
Examples ==
    {NilExample}
        \cup {GoValue("string", AsciiChars(n) \o WideChars(w)) :
                  n \in 0..MaxAscii, w \in 0..MaxWide}
        \cup {GoValue("string", WideChars(w) \o AsciiChars(n)) :
                  n \in 0..MaxAscii, w \in 0..MaxWide}

\* The lengths formatExampleForDisplay compares and cuts at.
DisplayLimit == 30
DisplayKeep == 27

\* formatExampleForDisplay: len(str) counts bytes and str[:27] cuts bytes;
\* fmt.Sprintf("%v", example) of a string is the string.
formatExampleForDisplay(example) ==
    IF example = NilExample \/ InterfaceEq(example, GoValue("string", <<>>))
    THEN <<"-">>
    ELSE LET str == example.v
         IN IF Len(str) > DisplayLimit
            THEN SubSeq(str, 1, DisplayKeep) \o <<".", ".", ".">>
            ELSE str

\* displayTable formats the example of a field for its last column.
CallFormatExampleForDisplay ==
    /\ called = Nil
    /\ called' = "formatExampleForDisplay"
    /\ ret' = formatExampleForDisplay(args[1])
    /\ UNCHANGED <<args, engineState, cliVars>>

\* The example cell of every example.
InitDisplay ==
    /\ InitLibrary
    /\ called = Nil
    /\ args \in {<<x>> : x \in Examples}
    /\ ret = <<>>

NextDisplay == CallFormatExampleForDisplay

SpecDisplay == InitDisplay /\ [][NextDisplay]_vars

\* ------------------------------------------- commands doc, schema, list

\* A struct type and a type that is no struct, to put into a registry.
FieldNamed(name) == CHOOSE f \in FieldPool : f.Name = name
SampleType ==
    StructOf("T", <<FieldNamed("A"), FieldNamed("c"), FieldNamed("E"),
                    FieldNamed("B")>>)

\* The registry with the types added that its comment asks for: a pointer
\* to a struct under "T", and a value that is no struct under "N".
FilledTypes ==
    [n \in {"N", "T"} |-> IF n = "T" THEN PtrTo(SampleType) ELSE KindOnly("int")]

\* The registries the commands are run with: as shipped, and filled.
Registries == {ShippedTypes, FilledTypes}

\* An error: a message, and the error or the value it wraps.
Failure(msg, cause) == [msg |-> msg, cause |-> cause]

\* A lookup that answers a name it does not know with a nil value.
getTypeByName_NoError(registry, name) ==
    IF name \in DOMAIN registry
    THEN [value |-> registry[name], err |-> NoFailure]
    ELSE [value |-> NilType, err |-> NoFailure]

\* getTypeByName: the entry of the registry, or an "unknown type" error.
getTypeByName(registry, name) ==
    IF name \in DOMAIN registry
    THEN [value |-> registry[name], err |-> NoFailure]
    ELSE [value |-> NilType, err |-> Failure("unknown type", name)]

\* A line written to standard output: what it is and the texts in it. The
\* padding of the tabwriter is left out.
Line(kind, cells) == [kind |-> kind, cells |-> cells]

\* The row of displayTable for a field.
TableLine(field) ==
    Line("row",
         <<<<field.Name>> \o (IF field.Required THEN <<" *">> ELSE <<>>),
           <<field.Type>>,
           IF field.JSONName = <<>> THEN <<"-">> ELSE field.JSONName,
           field.Description,
           formatExampleForDisplay(GoValue("string", field.Example))>>)

\* The lines of the title that displayTable and displaySimple both begin with.
TitleLines(doc) ==
    <<Line("type", <<<<doc.Name>>>>)>>
        \o (IF doc.Description # <<>>
            THEN <<Line("description", <<doc.Description>>)>> ELSE <<>>)
        \o <<Line("blank", <<>>)>>

\* displayTable
displayTable(doc) ==
    TitleLines(doc)
        \o <<Line("header", <<<<"FIELD">>, <<"TYPE">>, <<"JSON">>,
                               <<"DESCRIPTION">>, <<"EXAMPLE">>>>),
             Line("rule", <<>>)>>
        \o [i \in 1..Len(doc.Fields) |-> TableLine(doc.Fields[i])]
        \o <<Line("blank", <<>>), Line("legend", <<<<"* = required field">>>>)>>

\* The lines of displaySimple for a field.
SimpleLines(field) ==
    <<Line("name", <<<<field.Name>>
                       \o (IF field.Required THEN <<" (required)">> ELSE <<>>)>>),
      Line("Type", <<<<field.Type>>>>)>>
        \o (IF field.JSONName # <<>> /\ field.JSONName # StrDash
            THEN <<Line("JSON", <<field.JSONName>>)>> ELSE <<>>)
        \o (IF field.Description # <<>>
            THEN <<Line("Description", <<field.Description>>)>> ELSE <<>>)
        \o (IF field.Example # <<>>
            THEN <<Line("Example", <<field.Example>>)>> ELSE <<>>)
        \o <<Line("blank", <<>>)>>

\* The loop of displaySimple over the fields i, i+1, ...
RECURSIVE SimpleFields(_, _, _)
SimpleFields(fields, i, lines) ==
    IF i > Len(fields) THEN lines
    ELSE SimpleFields(fields, i + 1, lines \o SimpleLines(fields[i]))

\* displaySimple
displaySimple(doc) == SimpleFields(doc.Fields, 1, TitleLines(doc))

\* What a command's RunE has done when it returns: what it wrote to
\* standard output and to a file, the error it returns, the calls it made.
Outcome(out, file, failure, calls) ==
    [stdout |-> out, outFile |-> file, err |-> failure, steps |-> calls]

\* A doc command that shows the table when it does not know the format.
DocFormats_Any(format) == IF format = "simple" THEN "simple" ELSE "table"

\* The switch of the doc command: the display of a format, "" if none.
DocFormats(format) ==
    IF format = "table" THEN "table"
    ELSE IF format = "simple" THEN "simple" ELSE ""

\* The RunE of the doc command.
RunDoc(registry, typeName, format) ==
    LET found == getTypeByName(registry, typeName)
        gen == Generate(found.value)
    IN IF found.err # NoFailure
       THEN Outcome(<<>>, NoFile, Failure("failed to get type", found.err.msg),
                    <<"getTypeByName">>)
       ELSE IF gen.panic
       THEN Outcome(<<>>, NoFile, Failure("panic", "nil pointer dereference"),
                    <<"getTypeByName", "Generate">>)
       ELSE IF gen.err # <<>>
       THEN Outcome(<<>>, NoFile,
                    Failure("failed to generate documentation", gen.err[1]),
                    <<"getTypeByName", "Generate">>)
       ELSE IF DocFormats(format) = "table"
       THEN Outcome(displayTable(gen.doc), NoFile, NoFailure,
                    <<"getTypeByName", "Generate", "displayTable">>)
       ELSE IF DocFormats(format) = "simple"
       THEN Outcome(displaySimple(gen.doc), NoFile, NoFailure,
                    <<"getTypeByName", "Generate", "displaySimple">>)
       ELSE Outcome(<<>>, NoFile, Failure("unsupported format", format),
                    <<"getTypeByName", "Generate">>)

\* The switch of the schema command: the formats ExportMarkdown serves.
SchemaFormats(format) == format \in {"markdown", "md"}

\* The paths os.WriteFile cannot write to.
Unwritable == {"ro/out.md"}

\* The RunE of the schema command. (The note it writes to standard error
\* after writing the file is left out.)
RunSchema(registry, typeName, format, output) ==
    LET found == getTypeByName(registry, typeName)
        gen == Generate(found.value)
        result == ExportMarkdown(gen.doc).text
    IN IF found.err # NoFailure
       THEN Outcome(<<>>, NoFile, Failure("failed to get type", found.err.msg),
                    <<"getTypeByName">>)
       ELSE IF gen.panic
       THEN Outcome(<<>>, NoFile, Failure("panic", "nil pointer dereference"),
                    <<"getTypeByName", "Generate">>)
       ELSE IF gen.err # <<>>
       THEN Outcome(<<>>, NoFile, Failure("failed to generate schema", gen.err[1]),
                    <<"getTypeByName", "Generate">>)
       ELSE IF ~SchemaFormats(format)
       THEN Outcome(<<>>, NoFile, Failure("unsupported format", format),
                    <<"getTypeByName", "Generate">>)
       ELSE IF output = "" \/ output = "-"
       THEN Outcome(<<Line("markdown", <<result>>)>>, NoFile, NoFailure,
                    <<"getTypeByName", "Generate", "ExportMarkdown">>)
       ELSE IF output \in Unwritable
       THEN Outcome(<<>>, NoFile, Failure("failed to write output", output),
                    <<"getTypeByName", "Generate", "ExportMarkdown", "WriteFile">>)
       ELSE Outcome(<<>>, [path |-> output, content |-> result], NoFailure,
                    <<"getTypeByName", "Generate", "ExportMarkdown", "WriteFile">>)

\* sort.Strings(names) of the names in a registry.
SortedNames(registry) == SelectSeq(<<"N", "T">>, LAMBDA n : n \in DOMAIN registry)

\* The number of exported fields the list command counts for a type.
NumFields(v) ==
    LET t == IF v.kind = "ptr" THEN v.elem ELSE v
    IN IF t.kind = "struct"
       THEN Len(SelectSeq(t.fields, LAMBDA f : IsExported(f))) ELSE 0

\* t.String() of the type of a registry entry, without the pointer.
TypeString(v) ==
    LET t == IF v.kind = "ptr" THEN v.elem ELSE v
    IN IF t.kind = "struct" THEN t.name ELSE t.kind

\* The loop of the list command over the sorted names i, i+1, ...
RECURSIVE ListedTypes(_, _, _, _)
ListedTypes(registry, names, i, lines) ==
    IF i > Len(names) THEN lines
    ELSE ListedTypes(registry, names, i + 1,
             lines \o <<Line("name", <<<<names[i]>>>>),
                        Line("Type", <<<<TypeString(registry[names[i]])>>>>),
                        Line("Fields", <<<<NumFields(registry[names[i]])>>>>),
                        Line("blank", <<>>)>>)

\* The RunE of the list command.
RunList(registry) ==
    IF Cardinality(DOMAIN registry) = 0
    THEN Outcome(<<Line("text", <<<<"No types registered.">>>>),
                   Line("blank", <<>>),
                   Line("text", <<<<"To register types, add them to the type registry in schema.go">>>>)>>,
                 NoFile, NoFailure, <<"getRegisteredTypes">>)
    ELSE Outcome(ListedTypes(registry, SortedNames(registry), 1,
                     <<Line("text", <<<<"Available types:">>>>),
                       Line("blank", <<>>)>>)
                   \o <<Line("text", <<<<"Usage:">>>>),
                        Line("text", <<<<"  template schema <type-name> -o output.md">>>>),
                        Line("text", <<<<"  template doc <type-name>">>>>)>>,
                 NoFile, NoFailure, <<"getRegisteredTypes">>)

\* A command line: the command and its arguments and flags.
Invocation(name, typeName, format, output) ==
    [name |-> name, typeName |-> typeName, format |-> format,
     output |-> output, templateFile |-> "", dataFile |-> "", dev |-> FALSE]

\* The type names, formats and output paths given on the command line.
TypeNames == {"T", "N", "U"}
Formats == {"table", "simple", "markdown", "md", "json", ""}
Outputs == {"", "-", "out.md", "ro/out.md"}

Invocations ==
    {Invocation("doc", n, f, "") : n \in TypeNames, f \in Formats}
        \cup {Invocation("schema", n, f, o) :
                  n \in TypeNames, f \in Formats, o \in Outputs}
        \cup {Invocation("list", "", "", "")}

\* The command runs its RunE and returns.
Return(outcome) ==
    /\ cpc = "start"
    /\ cpc' = "done"
    /\ stdout' = outcome.stdout
    /\ outFile' = outcome.outFile
    /\ cerr' = outcome.err
    /\ steps' = outcome.steps
    /\ UNCHANGED <<types, registered, cmd, cdata, engineState, callVars>>

DocCmd == cmd.name = "doc" /\ Return(RunDoc(types, cmd.typeName, cmd.format))

SchemaCmd ==
    /\ cmd.name = "schema"
    /\ Return(RunSchema(types, cmd.typeName, cmd.format, cmd.output))

ListCmd == cmd.name = "list" /\ Return(RunList(registered))

\* One run of the doc, schema or list command, on any command line and
\* with the registries as shipped or filled.
InitCommands ==
    /\ InitWith({[e \in Engines |-> FALSE]})
    /\ NoCall
    /\ types \in Registries
    /\ registered \in Registries
    /\ cmd \in Invocations
    /\ cpc = "start"
    /\ cdata = Nil
    /\ stdout = <<>>
    /\ outFile = NoFile
    /\ cerr = NoFailure
    /\ steps = <<>>

NextCommands == DocCmd \/ SchemaCmd \/ ListCmd

SpecCommands == InitCommands /\ [][NextCommands]_vars

\* --------------------------------------------------------- command render

\* The data files of the command line: none given (""), a file that holds a
\* JSON object, a file that is not there, a file that holds no JSON.
DataFiles == {"", "c1.json", "missing.json", "bad.json"}

\* os.ReadFile of a data file, and json.Unmarshal of what it holds.
ReadFile(file) == IF file = "missing.json" THEN "no such file" ELSE Nil
Unmarshal(file) ==
    IF file = "bad.json" THEN [data |-> Nil, err |-> "invalid character"]
    ELSE [data |-> "c1", err |-> Nil]

\* The render command lines.
RenderInvocations ==
    {[name |-> "render", typeName |-> "", format |-> "", output |-> "",
      templateFile |-> p, dataFile |-> d, dev |-> b] :
        p \in Paths, d \in DataFiles, b \in BOOLEAN}

\* The engine the render command makes, and the goroutine that runs RunE.
CmdEngine == CHOOSE e \in Shared : TRUE

\* RunE, first part: without a data file the data stays a nil map; else the
\* file is read and decoded, and either failure is returned.
RenderReadData ==
    /\ cmd.name = "render" /\ cpc = "start"
    /\ IF cmd.dataFile = ""
       THEN /\ cpc' = "engine"
            /\ UNCHANGED <<cdata, cerr, steps>>
       ELSE IF ReadFile(cmd.dataFile) # Nil
       THEN /\ cerr' = Failure("failed to read data file", ReadFile(cmd.dataFile))
            /\ steps' = Append(steps, "ReadFile")
            /\ cpc' = "done"
            /\ cdata' = cdata
       ELSE IF Unmarshal(cmd.dataFile).err # Nil
       THEN /\ cerr' = Failure("failed to parse data file",
                               Unmarshal(cmd.dataFile).err)
            /\ steps' = steps \o <<"ReadFile", "Unmarshal">>
            /\ cpc' = "done"
            /\ cdata' = cdata
       ELSE /\ cdata' = Unmarshal(cmd.dataFile).data
            /\ steps' = steps \o <<"ReadFile", "Unmarshal">>
            /\ cpc' = "engine"
            /\ cerr' = cerr
    /\ UNCHANGED <<types, registered, cmd, stdout, outFile, engineState, callVars>>

\* template.NewJetEngine(JetOptions{TemplateDir, DevelopmentMode: devMode})
RenderNewEngine ==
    /\ cmd.name = "render" /\ cpc = "engine"
    /\ developmentMode' = [developmentMode EXCEPT ![CmdEngine] = cmd.dev]
    /\ setCache' = [setCache EXCEPT ![CmdEngine] = [p \in Paths |-> NilJet]]
    /\ setGlobals' = [setGlobals EXCEPT ![CmdEngine] =
                          registerDefaultFuncs(NewSetGlobals)]
    /\ funcs' = [funcs EXCEPT ![CmdEngine] = [n \in Names |-> Nil]]
    /\ regEpoch' = [regEpoch EXCEPT ![CmdEngine] = NoEpoch]
    /\ replaced' = [replaced EXCEPT ![CmdEngine] = [p \in Paths |-> FALSE]]
    /\ steps' = Append(steps, "NewJetEngine")
    /\ cpc' = "load"
    /\ UNCHANGED <<muVars, envVars, heap, ops, pc, eng, loadVars, addVars,
                   renderVars, epochAtCall, callVars, types, registered, cmd,
                   cdata, stdout, outFile, cerr>>

\* tmpl, err := engine.Load(templateFile)
RenderLoad ==
    /\ cmd.name = "render" /\ cpc = "load" /\ ops = 0
    /\ LoadBegin(Solo, CmdEngine, cmd.templateFile)

\* A RunE that goes on to Render whatever Load returned.
RenderAfterLoad_Ignored ==
    /\ cmd.name = "render" /\ cpc = "load" /\ ops = 1 /\ pc[Solo] = "idle"
    /\ steps' = Append(steps, "Load")
    /\ cpc' = "render"
    /\ cerr' = cerr
    /\ UNCHANGED <<types, registered, cmd, cdata, stdout, outFile, engineState,
                   callVars>>

\* Load has returned: its error is returned, wrapped; else RunE goes on.
RenderAfterLoad ==
    /\ cmd.name = "render" /\ cpc = "load" /\ ops = 1 /\ pc[Solo] = "idle"
    /\ steps' = Append(steps, "Load")
    /\ IF held[Solo] = NilTemplate
       THEN /\ cerr' = Failure("failed to load template", "load template")
            /\ cpc' = "done"
       ELSE /\ cpc' = "render"
            /\ cerr' = cerr
    /\ UNCHANGED <<types, registered, cmd, cdata, stdout, outFile, engineState,
                   callVars>>

\* result, err := engine.Render(tmpl, data)
RenderRender ==
    /\ cmd.name = "render" /\ cpc = "render" /\ ops = 1
    /\ CallRender(Solo, CmdEngine, held[Solo], cdata)

\* Render has returned: its error is returned, wrapped; else RunE goes on.
RenderAfterRender ==
    /\ cmd.name = "render" /\ cpc = "render" /\ ops = 2 /\ pc[Solo] = "idle"
    /\ steps' = Append(steps, "Render")
    /\ IF rout[Solo].err # Nil
       THEN /\ cerr' = Failure("failed to render template", rout[Solo].err)
            /\ cpc' = "done"
       ELSE /\ cpc' = "print"
            /\ cerr' = cerr
    /\ UNCHANGED <<types, registered, cmd, cdata, stdout, outFile, engineState,
                   callVars>>

\* fmt.Print(result); return nil
RenderPrint ==
    /\ cmd.name = "render" /\ cpc = "print"
    /\ stdout' = IF rout[Solo].text = <<>> THEN stdout
                 ELSE Append(stdout, Line("text", rout[Solo].text))
    /\ steps' = Append(steps, "Print")
    /\ cpc' = "done"
    /\ UNCHANGED <<types, registered, cmd, cdata, outFile, cerr, engineState,
                   callVars>>

\* One run of the render command, on any command line.
InitRender ==
    /\ InitWith({[e \in Engines |-> FALSE]})
    /\ NoCall
    /\ types = ShippedTypes
    /\ registered = ShippedTypes
    /\ cmd \in RenderInvocations
    /\ cpc = "start"
    /\ cdata = Nil
    /\ stdout = <<>>
    /\ outFile = NoFile
    /\ cerr = NoFailure
    /\ steps = <<>>

NextRender ==
    \/ RenderReadData
    \/ RenderNewEngine
    \/ RenderLoad
    \/ LoadRead(Solo)
    \/ LoadCachePut(Solo)
    \/ LoadReturn(Solo)
    \/ RenderAfterLoad
    \/ RenderRender
    \/ RenderExec(Solo)
    \/ RenderReturn(Solo)
    \/ RenderAfterRender
    \/ RenderPrint

SpecRender == InitRender /\ [][NextRender]_vars

\* ------------------------------------------------------------------ claims

\* A Load, outside development mode, that is about to return a template to
\* a caller whose variable holds the result of its earlier successful Load
\* of the same path on the same engine.
SecondLoad(t) ==
    /\ pc[t] = "load_ret"
    /\ err[t] = Nil
    /\ ~developmentMode[eng[t]]
    /\ held[t] # NilTemplate
    /\ held[t].Path = path[t]
    /\ held[t].jet.set = eng[t]

\* C1 as stated: outside development mode the second successful Load of a
\* path returns the same Template instance as the first and does not read
\* the source.
C1_SameInstance ==
    \A t \in Threads :
        SecondLoad(t) => LoadResult(t).tmpl = held[t] /\ ~didRead[t]

\* C1, amended: outside development mode the second successful Load of a
\* path does not read the source and returns a newly allocated Template, a
\* different instance from the first, for the same path; its compiled
\* program is the instance the first Load returned unless overlapping Loads
\* that both missed the cache compiled the path twice and one replaced the
\* other's cache entry.
C1_SameProgram ==
    \A t \in Threads :
        SecondLoad(t) =>
            /\ ~didRead[t]
            /\ LoadResult(t).tmpl.id # held[t].id
            /\ LoadResult(t).tmpl.Path = held[t].Path
            /\ LoadResult(t).tmpl.jet.path = path[t]
            /\ ~replaced[eng[t]][path[t]] => LoadResult(t).tmpl.jet = held[t].jet

\* C1, witness: a second Load returns the program of the first although the
\* file has changed since it was compiled.
C1_Witness ==
    \E t \in Threads :
        /\ SecondLoad(t)
        /\ jt[t] = held[t].jet
        /\ fs[path[t]] # SourceFile(jt[t].src)

\* A Load in development mode that is about to return.
DevLoad(t) == pc[t] = "load_ret" /\ developmentMode[eng[t]]

\* C2: in development mode every Load reads the source and compiles it
\* again, whatever was loaded before, and caches nothing; when the file has
\* not changed since the Load began, the Load returns a template newly
\* compiled from the file as it is now, and fails if the file holds none.
C2_DevReload ==
    \A t \in Threads :
        DevLoad(t) =>
            /\ didRead[t]
            /\ setCache[eng[t]][path[t]] = NilJet
            /\ writes = writesAtCall[t] =>
                   IF fs[path[t]].kind = "source"
                   THEN /\ err[t] = Nil
                        /\ jt[t].src = fs[path[t]].calls
                        /\ jt[t].id # held[t].jet.id
                   ELSE err[t] # Nil

\* C2, witness: a file is changed between two Loads of it in development
\* mode and the second Load returns a template of the changed source.
C2_Witness ==
    \E t \in Threads :
        /\ DevLoad(t)
        /\ writes = writesAtCall[t]
        /\ err[t] = Nil
        /\ held[t] # NilTemplate
        /\ held[t].Path = path[t]
        /\ held[t].jet.src # jt[t].src

\* A Load that is about to return an error.
FailedLoad(t) == pc[t] = "load_ret" /\ err[t] # Nil

\* What a failed Load returns: no template, and an error with the requested
\* path and the cause.
FailedLoadResult(t) ==
    /\ LoadResult(t).tmpl = NilTemplate
    /\ LoadResult(t).err.path = path[t]
    /\ LoadResult(t).err.cause = err[t]
    /\ err[t] \in {CauseNotFound, CauseParse}

\* A cached template that a successful parse of the path produced.
Compiled(c, e, p) == c.id > 0 /\ c.set = e /\ c.path = p /\ c.src \in Sources

Rendering(t) == pc[t] \in {"render_exec", "render_ret"} /\ ~InvalidTemplate(targ[t])

\* C4 as stated: no registration on the engine takes effect between the
\* start and the end of a Render: while a template is rendered, the set it
\* resolves its functions in has had no registration since the Render began.
C4_NoRegistrationDuringRender ==
    \A t \in Threads :
        Rendering(t) => regEpoch[targ[t].jet.set] = epochAtCall[t]

\* A Load between its call and its return.
Loading(t) == pc[t] \in {"load_read", "load_put", "load_ret"}

\* A Load that missed the cache and reads, compiles and stores the template.
Populating(t) == pc[t] \in {"load_read", "load_put"} /\ ~developmentMode[eng[t]]

\* C5 as stated: a Load that populates the cache holds the lock exclusively:
\* no other call holds the engine's lock in any mode while it does.
C5_ExclusiveOnMiss ==
    \A t \in Threads :
        Populating(t) => muWriter[eng[t]] = t /\ muReaders[eng[t]] = {}

\* C5, amended: every Load, cache hit or miss, holds the engine's lock in
\* shared mode from its call to its return and never as the writer; no
\* AddFunc on the engine is inside its critical section meanwhile, while
\* other Loads (and Renders, which take no lock) may overlap it.
C5_SharedOnMiss ==
    \A t \in Threads :
        Loading(t) =>
            /\ t \in muReaders[eng[t]]
            /\ \A u \in Threads :
                  pc[u] = "af_unlock" => eng[u] # eng[t]

\* C5, witness: two Loads of one path that both missed the cache are about
\* to store their templates at the same time.
C5_Witness ==
    \E t, u \in Threads :
        /\ t # u
        /\ pc[t] = "load_put" /\ pc[u] = "load_put"
        /\ eng[t] = eng[u] /\ path[t] = path[u]

\* C6: AddFunc leaves the name bound to the function it was given, whatever
\* the name was bound to; and every call of a name in a Render during which
\* the name was not registered again invoked the function the name is bound
\* to, that is the one of the last registration before the Render began.
C6_Replaces ==
    /\ \A u \in Threads :
          pc[u] = "af_unlock" =>
              /\ setGlobals[eng[u]][fname[u]] = ffn[u]
              /\ funcs[eng[u]][fname[u]] = ffn[u]
    /\ \A t \in Threads :
          Rendering(t) =>
              \A i \in 1..Len(buf[t]) :
                  LET name == targ[t].jet.src[i]
                      set == targ[t].jet.set IN
                  regEpoch[set][name] = epochAtCall[t][name] =>
                      buf[t][i] = Apply(setGlobals[set][name], ctx[t])

\* C6, witness: a Render has called a built-in name that a registration
\* made before the Render began has bound to a caller's function, and the
\* output is that function's.
C6_Witness ==
    \E t \in Threads :
        /\ pc[t] = "render_ret"
        /\ rerr[t] = Nil
        /\ targ[t].jet.src[1] \in BuiltinNames
        /\ regEpoch[targ[t].jet.set] = epochAtCall[t]
        /\ \E f \in CustomFns : buf[t][1] = Apply(f, ctx[t])

\* The orders in which a range can visit the keys.
Orders(keys) ==
    {s \in [1..Cardinality(keys) -> keys] : \A k \in keys : \E i \in DOMAIN s : s[i] = k}

\* The table after AddFunc(k, m[k]) for each key k in the given order.
RECURSIVE AddFuncSeq(_, _, _)
AddFuncSeq(table, m, order) ==
    IF Len(order) = 0 THEN table
    ELSE AddFuncSeq([table EXCEPT ![Head(order)] = m[Head(order)]], m, Tail(order))

\* The keys of the map an AddFuncs was called with.
BatchKeys(t) == {n \in RegNames : batch[t][n] # Nil}

\* C7: when AddFuncs(m), not interfered with, has visited every entry, the
\* registry is what AddFunc(k, m[k]) for each key k of m makes of the
\* registry AddFuncs started from, whatever the order of the keys.
C7_AddFuncsIsRepeatedAddFunc ==
    \A t \in Threads :
        pc[t] = "afs_loop" /\ todo[t] = {} =>
            /\ \A order \in Orders(BatchKeys(t)) :
                  setGlobals[eng[t]] = AddFuncSeq(regAtCall[t], batch[t], order)
            /\ \A k \in BatchKeys(t) : funcs[eng[t]][k] = batch[t][k]

\* C7, witness: an AddFuncs of a map with two entries, one of them bound
\* before to another function, has visited both.
C7_Witness ==
    \E t \in Threads :
        /\ pc[t] = "afs_loop" /\ todo[t] = {}
        /\ Cardinality(BatchKeys(t)) = 2
        /\ \E k \in BatchKeys(t) :
              regAtCall[t][k] \in CustomFns /\ regAtCall[t][k] # batch[t][k]

\* The Render that is about to return repeats the caller's previous Render:
\* same source compiled by the same set, same context, and no registration
\* since the previous Render began.
RepeatedRender(t) ==
    /\ pc[t] = "render_ret"
    /\ ~InvalidTemplate(targ[t])
    /\ rout[t].set = targ[t].jet.set
    /\ rout[t].src = targ[t].jet.src
    /\ rout[t].ctx = ctx[t]
    /\ rout[t].stable /\ RenderResult(t).stable
    /\ rout[t].to = RenderResult(t).to

\* C8: two Renders of the same compiled template, or of a template loaded
\* again from the same source, with the same context and no registration in
\* between return the same output and the same error.
C8_Deterministic ==
    \A t \in Threads :
        RepeatedRender(t) =>
            /\ RenderResult(t).text = rout[t].text
            /\ RenderResult(t).err = rout[t].err

\* C8, witness: a caller in development mode renders a template, loads it
\* again from the unchanged source and renders the new instance, with output.
C8_Witness ==
    \E t \in Threads :
        /\ RepeatedRender(t)
        /\ rerr[t] = Nil /\ buf[t] # <<>>
        /\ developmentMode[targ[t].jet.set]
        /\ rout[t].jet # targ[t].jet.id

\* A step of a Render of thread t: its call, one call of the template, or
\* its return.
RenderStep(t) ==
    \/ pc[t] = "idle" /\ pc'[t] \in {"render_exec", "render_ret"}
    \/ pc[t] = "render_exec" /\ (pc'[t] = "render_ret" \/ idx'[t] # idx[t])
    \/ pc[t] = "render_ret" /\ pc'[t] = "idle"

\* C9: no step of a Render, successful or failing, changes the function
\* registry or the cache of compiled templates of any engine.
C9_RenderWritesNothing ==
    [][(\E t \in Threads : RenderStep(t)) =>
           /\ setCache' = setCache
           /\ setGlobals' = setGlobals
           /\ funcs' = funcs]_vars

\* C9, witness: a Render of a compiled template has failed after producing
\* part of its output.
C9_Witness ==
    \E t \in Threads :
        /\ pc[t] = "render_ret"
        /\ rerr[t] = ErrRenderTemplate
        /\ buf[t] # <<>>

\* C10: a name bound in an engine's registry stays bound in every step.
C10_NamesNeverShrink ==
    [][\/ setGlobals' = setGlobals /\ funcs' = funcs
       \/ \A e \in Engines, n \in Names :
             /\ setGlobals[e][n] # Nil => setGlobals'[e][n] # Nil
             /\ funcs[e][n] # Nil => funcs'[e][n] # Nil]_vars

\* C10, witness: after a name that is no built-in was registered, a
\* registration of another name has been made and both are bound.
C10_Witness ==
    \E e \in Engines :
        /\ \A n \in RegNames : funcs[e][n] # Nil
        /\ \E n \in RegNames \ BuiltinNames : regEpoch[e][n] = 1
        /\ \A n \in Names : setGlobals[e][n] # Nil

\* The custom functions whose output a Render has written, with the names
\* the template called them by.
Observed(t) ==
    {<<targ[t].jet.src[i], buf[t][i][1]>> : i \in 1..Len(buf[t])}
        \cap (RegNames \X CustomFns)

\* C11 as stated: a Render on one engine observes no function registered
\* only on another: every custom function in the output of e.Render is the
\* one registered under that name on e.
C11_RenderOfReceiver ==
    \A t \in Threads :
        Rendering(t) =>
            \A o \in Observed(t) : funcs[eng[t]][o[1]] = o[2]

\* The engine the single caller's call in progress is a call of.
Receiver == IF eng[Solo] # Nil THEN eng[Solo] ELSE eng'[Solo]

\* C11, amended: no step of a call on one engine changes the registry or
\* the cache of another engine, and every custom function in the output
\* of a Render is the one registered under that name on the engine that
\* loaded the template, whichever engine's Render was called.
C11_Isolated ==
    /\ [][\A e \in Engines \ {Receiver} :
             /\ setCache'[e] = setCache[e]
             /\ setGlobals'[e] = setGlobals[e]
             /\ funcs'[e] = funcs[e]]_vars
    /\ [](\A t \in Threads :
             Rendering(t) =>
                 \A o \in Observed(t) : funcs[targ[t].jet.set][o[1]] = o[2])

\* C11, witness: a Render on one engine of its own template has called a
\* name that is registered on the other engine only, and has written the
\* built-in function's output.
C11_Witness ==
    \E t \in Threads, e \in Engines :
        /\ pc[t] = "render_ret" /\ rerr[t] = Nil
        /\ eng[t] # e /\ targ[t].jet.set = eng[t]
        /\ LET name == targ[t].jet.src[1] IN
              /\ funcs[e][name] \in CustomFns
              /\ funcs[eng[t]][name] = Nil
              /\ buf[t][1] = Apply(DefaultFuncs[name], ctx[t])

\* The helper names the engine is documented to provide.
HelperNames ==
    {"formatCurrency", "formatPercent", "formatFloat", "colorCode",
     "trendIndicator", "isBullish", "isBearish", "isOverbought", "isOversold",
     "join", "joinFloats", "joinInts", "joinStrings", "toJSON", "toJSONPretty",
     "range", "default", "multiply", "divide", "add", "subtract", "abs", "min",
     "max"}

\* Whether a caller has registered the name on the engine.
Registered(e, n) == n \in RegNames /\ regEpoch[e][n] > 0

\* C12: in every state of an engine of either mode each of the 24 helper
\* names is bound in the globals its templates resolve names in, to the
\* built-in function as long as no caller has registered the name; and no
\* Render fails because a helper name is unbound.
C12_BuiltinsBound ==
    /\ \A e \in Engines, n \in HelperNames :
          /\ setGlobals[e][n] # Nil
          /\ ~Registered(e, n) => setGlobals[e][n] = DefaultFuncs[n]
    /\ \A t \in Threads :
          pc[t] = "render_ret" /\ rerr[t] = ErrRenderTemplate =>
              targ[t].jet.src[idx[t]] \notin HelperNames

\* C12, witness: an engine in development mode on which no function was
\* ever registered has rendered a template that calls a helper twice.
C12_Witness ==
    \E t \in Threads :
        /\ pc[t] = "render_ret" /\ rerr[t] = Nil
        /\ developmentMode[targ[t].jet.set]
        /\ regEpoch[targ[t].jet.set] = NoEpoch
        /\ Len(buf[t]) = 2
        /\ \A i \in 1..2 : buf[t][i] = Apply("FormatCurrency", ctx[t])

\* The zero values the contract of Default names: the empty string, a zero
\* int, int64 or float64, false, and nil.
IsZeroValue(value) ==
    \/ value.type = "string" /\ value.v = ""
    \/ value.type \in {"int", "int64", "float64"} /\ value.v = 0
    \/ value.type = "bool" /\ ~value.v
    \/ value.type = "nil"

\* C13 as stated: Default returns defaultValue when value is the empty
\* string, a zero int, int64 or float64, false or nil, and returns value
\* unchanged otherwise.
C13_DefaultOnZero ==
    called = "Default" =>
        ret = IF IsZeroValue(args[2]) THEN args[1] ELSE args[2]

\* The struct type under the value Generate was called with.
RecordOf(v) == IF v.kind = "ptr" THEN v.elem ELSE v

\* Whether the value's underlying type is a record.
IsRecord(v) == v # NilType /\ RecordOf(v).kind = "struct"

\* The exported fields of a struct type, in declaration order.
ExportedFields(typ) == SelectSeq(typ.fields, LAMBDA f : f.PkgPath = "")

\* C14: for a record (or a pointer to one) Generate returns, without error,
\* one FieldDoc per exported field and none for an unexported one, in
\* declaration order, and the record's type name.
C14_ExportedFieldsInOrder ==
    called = "Generate" /\ IsRecord(args[1]) =>
        LET typ == RecordOf(args[1])
            exported == ExportedFields(typ) IN
        /\ ret.err = <<>> /\ ~ret.panic
        /\ ret.doc.Name = typ.name
        /\ Len(ret.doc.Fields) = Len(exported)
        /\ \A i \in 1..Len(exported) :
              /\ ret.doc.Fields[i].Name = exported[i].Name
              /\ ret.doc.Fields[i].Type = exported[i].Type
        /\ \A i \in 1..Len(ret.doc.Fields) :
              \A j \in 1..Len(typ.fields) :
                  typ.fields[j].PkgPath # "" =>
                      ret.doc.Fields[i].Name # typ.fields[j].Name

\* C14, witness: a record of three exported fields and one unexported
\* field, which is not the last, has yielded three FieldDocs.
C14_Witness ==
    /\ called = "Generate" /\ IsRecord(args[1])
    /\ Len(RecordOf(args[1]).fields) = 4
    /\ RecordOf(args[1]).fields[2].PkgPath # ""
    /\ Len(ret.doc.Fields) = 3

\* C15 as stated: for a value whose underlying type is no record (a scalar,
\* a map, a pointer to a non-record, a pointer to a pointer, nil) Generate
\* returns an error and no TypeDoc, and does not panic.
C15_ErrorOnNonRecord ==
    called = "Generate" /\ ~IsRecord(args[1]) =>
        /\ ~ret.panic
        /\ ret.err # <<>>
        /\ ret.doc = NilDoc

\* Generate has returned the TypeDoc of a record.
Generated == called = "Generate" /\ IsRecord(args[1]) /\ ~ret.panic

\* The fields Generate has made FieldDocs of, and the positions of both.
Documented == ExportedFields(RecordOf(args[1]))
Positions == 1..Len(ret.doc.Fields)

\* The text before the first comma of s, all of s when it has no comma.
FirstSegment(s) ==
    LET commas == {k \in 1..Len(s) : s[k] = ","}
        end == IF commas = {} THEN Len(s) + 1
               ELSE CHOOSE k \in commas : \A j \in commas : k <= j
    IN SubSeq(s, 1, end - 1)

\* C16 as stated: JSONName is empty exactly when the field has no json
\* tag, and is the first comma-delimited segment of the tag when it has one.
C16_EmptyIffNoTag ==
    Generated =>
        \A i \in Positions :
            LET json == Documented[i].Tag.json IN
            /\ ret.doc.Fields[i].JSONName = <<>> <=> ~json.present
            /\ json.present => ret.doc.Fields[i].JSONName = FirstSegment(json.value)

\* C16, amended: JSONName is the first comma-delimited segment of the json
\* tag when the field has one and empty when it has none; so it is empty
\* exactly when the field has no json tag or the tag is empty or begins
\* with a comma.
C16_FirstSegment ==
    Generated =>
        \A i \in Positions :
            LET json == Documented[i].Tag.json IN
            /\ ret.doc.Fields[i].JSONName =
                   IF json.present THEN FirstSegment(json.value) ELSE <<>>
            /\ ret.doc.Fields[i].JSONName = <<>> <=>
                   \/ ~json.present
                   \/ json.value = <<>>
                   \/ json.value[1] = ","

\* C16, witness: a field whose json tag holds options only has an empty
\* JSONName, next to a field whose tag holds a name and an option.
C16_Witness ==
    /\ Generated
    /\ \E i \in Positions :
          /\ Documented[i].Tag.json = TagOf(StrOmitempty)
          /\ ret.doc.Fields[i].JSONName = <<>>
    /\ \E i \in Positions :
          /\ Documented[i].Tag.json = TagOf(StrNameOmitempty)
          /\ ret.doc.Fields[i].JSONName = <<"n">>

\* C17 as stated: Description is the value of the doc tag if the field has
\* one, else the value of the description tag if it has one, else empty.
C17_DocIfPresent ==
    Generated =>
        \A i \in Positions :
            LET tag == Documented[i].Tag IN
            ret.doc.Fields[i].Description =
                IF tag.doc.present THEN tag.doc.value
                ELSE IF tag.description.present THEN tag.description.value
                     ELSE <<>>

\* C17, amended: Description is the value of the doc tag if the field has
\* one that is not empty, else the value of the description tag if it has
\* one, else empty: an empty doc tag does not hide the description tag.
C17_DocIfNotEmpty ==
    Generated =>
        \A i \in Positions :
            LET tag == Documented[i].Tag IN
            ret.doc.Fields[i].Description =
                IF tag.doc.present /\ tag.doc.value # <<>> THEN tag.doc.value
                ELSE IF tag.description.present THEN tag.description.value
                     ELSE <<>>

\* C17, witness: a field with a doc tag and a different description tag is
\* described by its doc tag, next to a field with a description tag only.
C17_Witness ==
    /\ Generated
    /\ \E i \in Positions :
          LET tag == Documented[i].Tag IN
          /\ tag.doc.present /\ tag.description.present
          /\ tag.doc.value # <<>> /\ tag.doc.value # tag.description.value
          /\ ret.doc.Fields[i].Description = tag.doc.value
    /\ \E i \in Positions :
          LET tag == Documented[i].Tag IN
          /\ ~tag.doc.present /\ tag.description.present
          /\ ret.doc.Fields[i].Description = tag.description.value

\* Whether the characters of word stand in s, one after the other, from
\* some position on.
Occurs(word, s) ==
    \E start \in 1..Len(s) :
        /\ start + Len(word) - 1 <= Len(s)
        /\ \A k \in 1..Len(word) : s[start + k - 1] = word[k]

\* C18: Required is true exactly when the field has a schema tag whose
\* text contains "required" somewhere; without a schema tag it is false.
C18_RequiredIffSubstring ==
    Generated =>
        \A i \in Positions :
            LET schema == Documented[i].Tag.schema IN
            /\ ret.doc.Fields[i].Required <=>
                   schema.present /\ Occurs(StrRequired, schema.value)
            /\ ~schema.present => ~ret.doc.Fields[i].Required

\* C18, witness: of four fields one is required by the word itself, one by
\* a longer word that contains it, one is not because its tag holds a
\* prefix of the word only, and one is not because it has no schema tag.
C18_Witness ==
    /\ Generated
    /\ \E i \in Positions :
          Documented[i].Tag.schema = TagOf(StrRequired) /\ ret.doc.Fields[i].Required
    /\ \E i \in Positions :
          Documented[i].Tag.schema = TagOf(StrUnrequired) /\ ret.doc.Fields[i].Required
    /\ \E i \in Positions :
          Documented[i].Tag.schema = TagOf(StrRequire) /\ ~ret.doc.Fields[i].Required
    /\ \E i \in Positions :
          ~Documented[i].Tag.schema.present /\ ~ret.doc.Fields[i].Required

\* ExportMarkdown has returned the Markdown text of a TypeDoc.
Exported == called = "ExportMarkdown"

\* The lines of the text ExportMarkdown returned; the text ends with a line
\* break, so the last one is empty.
Lines == Split(ret.text, "\n")

\* The lines that follow the two lines of the table header.
RowLines ==
    LET rule == CHOOSE h \in 1..Len(Lines) : Lines[h] = <<TableHeader[3]>>
    IN SubSeq(Lines, rule + 1, Len(Lines) - 1)

\* Whether the line is the table row of the field: it begins with the
\* cells of the field's name and type and ends with the example cell.
IsRowOf(line, field) ==
    /\ Len(line) >= 6
    /\ SubSeq(line, 1, 4) = <<"| ", field.Name, " | ", field.Type>>
    /\ SubSeq(line, Len(line) - 1, Len(line)) = <<Backtick, " |">>

\* C19 as stated: the text begins with "# " and the type name, and the
\* lines after the table header are the table rows of the fields, one per
\* FieldDoc and in the order of doc.Fields; none when there is no field.
C19_OneRowPerField ==
    Exported =>
        /\ SubSeq(ret.text, 1, 2) = <<"# ", args[1].Name>>
        /\ Len(RowLines) = Len(args[1].Fields)
        /\ \A i \in 1..Len(RowLines) : IsRowOf(RowLines[i], args[1].Fields[i])

\* The Template Variable cell that names the field alone, and the one that
\* names the field and its JSON name.
NameCell(field) == <<"{{.", field.Name, "}}">>
BothCell(field) ==
    <<"{{.", field.Name, "}}", " or ", "{{.">> \o field.JSONName \o <<"}}">>

\* The returned text has a row of the field whose third cell is cell.
ShowsCell(field, cell) ==
    Occurs(<<"| ", field.Name, " | ", field.Type, " | ", Backtick>>
               \o cell \o <<Backtick, " | ">>, ret.text)

\* C20 as stated: the Template Variable cell of a field shows {{.Name}} and
\* {{.JSONName}} whenever JSONName is not empty, and {{.Name}} alone only
\* when JSONName is empty.
C20_BothIffNonEmpty ==
    Exported =>
        \A i \in 1..Len(args[1].Fields) :
            LET field == args[1].Fields[i]
            IN IF field.JSONName # <<>>
               THEN ShowsCell(field, BothCell(field))
               ELSE ShowsCell(field, NameCell(field))

\* C20, amended: the Template Variable cell of a field shows {{.Name}} and
\* {{.JSONName}} exactly when JSONName is neither empty nor "-"; for an
\* empty JSONName and for the JSONName "-" it shows {{.Name}} alone.
C20_BothIffNamed ==
    Exported =>
        \A i \in 1..Len(args[1].Fields) :
            LET field == args[1].Fields[i]
            IN IF field.JSONName # <<>> /\ field.JSONName # StrDash
               THEN /\ ShowsCell(field, BothCell(field))
                    /\ ~ShowsCell(field, NameCell(field))
               ELSE /\ ShowsCell(field, NameCell(field))
                    /\ ~ShowsCell(field, BothCell(field))

\* A text is returned with one field of JSONName "-" showing its name alone,
\* one of empty JSONName showing its name alone, and one showing both names.
C20_Witness ==
    /\ Exported
    /\ \E i, j, k \in 1..Len(args[1].Fields) :
        /\ args[1].Fields[i].JSONName = StrDash
        /\ ShowsCell(args[1].Fields[i], NameCell(args[1].Fields[i]))
        /\ args[1].Fields[j].JSONName = <<>>
        /\ ShowsCell(args[1].Fields[j], NameCell(args[1].Fields[j]))
        /\ args[1].Fields[k].JSONName \notin {<<>>, StrDash}
        /\ ShowsCell(args[1].Fields[k], BothCell(args[1].Fields[k]))

\* Whether the text is the whole output of the template against the data:
\* one piece for every call the template makes, in order, each the result of
\* a function applied to the data.
CompleteOutput(text, src, data) ==
    /\ Len(text) = Len(src)
    /\ \A i \in 1..Len(text) : \E f \in CustomFns \cup {DefaultFuncs[n] : n \in BuiltinNames} :
           text[i] = Apply(f, data)

\* C27: Render returns no partial output. A nil template and a template
\* without a compiled program are answered with "invalid template" before
\* anything is executed or written; whenever Render returns an error the
\* text is empty, and whenever it returns no error the text is the whole
\* output of the template.
C27_NoPartialOutput ==
    \A t \in Threads :
        /\ pc[t] = "render_exec" => ~InvalidTemplate(targ[t])
        /\ pc[t] = "render_ret" /\ InvalidTemplate(targ[t]) =>
               rerr[t] = ErrInvalidTemplate /\ buf[t] = <<>>
        /\ rout[t] # NoRender =>
               IF rout[t].err # Nil
               THEN rout[t].text = <<>>
               ELSE CompleteOutput(rout[t].text, rout[t].src, rout[t].ctx)

\* A Render of the template that calls formatCurrency and then upper has
\* returned an error: upper was not bound, after formatCurrency had written
\* its result to the buffer.
C27_Witness ==
    /\ rout[Solo].err = ErrRenderTemplate
    /\ rout[Solo].src = <<"formatCurrency", "upper">>
    /\ rout[Solo].text = <<>>

\* Whether the thread holds or has announced itself for the engine's lock.
HoldsLock(t, e) == muWriter[e] = t \/ t \in muReaders[e]

\* C29: AddFuncs is not atomic as a batch. Between two entries of its map
\* (and before the first and after the last) the caller holds no lock of the
\* engine, and it holds the exclusive lock for each single entry only; so
\* calls of other callers run between the entries, and two AddFuncs calls
\* that bind the same names can end with bindings from both maps.
C29_LockPerEntry ==
    \A t \in Threads :
        /\ pc[t] = "afs_loop" => ~HoldsLock(t, eng[t])
        /\ pc[t] \in {"af_wait", "af_unlock"} =>
               /\ muWriter[eng[t]] = t
               /\ InBatch(t) => fname[t] \notin todo[t]

\* Two AddFuncs calls on the shared engine, one with a map binding both
\* names to f1 and one binding both to f2, have returned, and the registry
\* binds one name to f1 and the other to f2.
C29_Witness ==
    /\ \A t \in Threads : pc[t] = "idle"
    /\ \E e \in Shared :
        /\ regEpoch[e] = [n \in RegNames |-> 2]
        /\ {setGlobals[e][n] : n \in RegNames} = {"f1", "f2"}
        /\ \A n \in RegNames : funcs[e][n] = setGlobals[e][n]

\* C28: the engine's lock cannot deadlock. No caller takes the lock while it
\* holds it, and a caller holds no lock outside Load and AddFunc: not when
\* it is in no call, not in Render, not in AddFuncs between its calls of
\* AddFunc. Under fair scheduling every started Load, Render, AddFunc and
\* AddFuncs returns, on the error path of Load as on any other, and by then
\* has released the lock it took.
C28_NoDeadlock ==
    /\ [](\A t \in Threads, e \in Engines :
            /\ ~(muWriter[e] = t /\ t \in muReaders[e])
            /\ pc[t] \in {"idle", "afs_loop", "render_exec", "render_ret"} =>
                   ~HoldsLock(t, e)
            /\ HoldsLock(t, e) => eng[t] = e)
    /\ \A t \in Threads : pc[t] # "idle" ~> pc[t] = "idle"

\* A Load that failed is about to return while it holds the lock shared and
\* an AddFunc of the other caller waits for the lock.
C28_Witness ==
    \E t, u \in Threads, e \in Shared :
        /\ pc[t] = "load_ret" /\ err[t] # Nil /\ t \in muReaders[e]
        /\ pc[u] = "af_wait" /\ muWriter[e] = u

\* Whether the float64 is at least the integer n, by its fraction.
AtLeast(x, n) ==
    x.class = "+Inf" \/ (x.class = "finite" /\ x.num >= n * x.den)

\* C22: FormatCurrency chooses its suffix from the unrounded input: from
\* 1000000 on the result is "$", value/1000000 to 2 decimals and "M";
\* otherwise from 1000 on it is "$", value/1000 to 2 decimals and "K";
\* otherwise "$" and the value to 2 decimals, with no suffix. Every negative
\* value takes the last branch.
C22_SuffixFromInput ==
    called = "FormatCurrency" =>
        LET value == args[1] IN
        /\ ret.lead = "$"
        /\ AtLeast(value, Million) =>
               ret.suffix = "M" /\ ret.number = Sprintf2(value, Million)
        /\ ~AtLeast(value, Million) /\ AtLeast(value, Thousand) =>
               ret.suffix = "K" /\ ret.number = Sprintf2(value, Thousand)
        /\ ~AtLeast(value, Thousand) =>
               ret.suffix = "" /\ ret.number = Sprintf2(value, 1)
        /\ Less(value, Const(0)) =>
               ret.suffix = "" /\ ret.number = Sprintf2(value, 1)

\* FormatCurrency(999.999) has returned "$1000.00": the input is below
\* 1000 and is shown without a suffix, though it rounds to 1000.00.
C22_Witness ==
    /\ called = "FormatCurrency"
    /\ args[1] = Amount(999, 999)
    /\ ret = Dollar([neg |-> FALSE, whole |-> 1000, cents |-> 0, word |-> ""], "")

\* C23: the comparison helpers are their strict comparisons: IsBullish is
\* price > ema, IsBearish is price < ema, IsOverbought is rsi > 70 and
\* IsOversold is rsi < 30. So IsBullish and IsBearish are never both true,
\* both are false when price equals ema, and an RSI of exactly 70 or
\* exactly 30 is neither overbought nor oversold.
C23_StrictComparisons ==
    /\ called = "IsBullish" => ret = Greater(args[1], args[2])
    /\ called = "IsBearish" => ret = Less(args[1], args[2])
    /\ called \in {"IsBullish", "IsBearish"} =>
           /\ ~(IsBullish(args[1], args[2]) /\ IsBearish(args[1], args[2]))
           /\ Equal(args[1], args[2]) => ret = FALSE
    /\ called = "IsOverbought" => ret = Greater(args[1], Const(OverboughtLevel))
    /\ called = "IsOversold" => ret = Less(args[1], Const(OversoldLevel))
    /\ /\ called \in {"IsOverbought", "IsOversold"}
       /\ \E level \in {OverboughtLevel, OversoldLevel} :
              Equal(args[1], Const(level))
       => ret = FALSE

\* IsBullish has answered false for a price that equals the EMA.
C23_Witness ==
    /\ called = "IsBullish"
    /\ args[1].class = "finite" /\ args[1].num # 0
    /\ Equal(args[1], args[2])
    /\ ret = FALSE

\* C24: Divide(a, 0) returns 0 for every a; for b different from 0,
\* Divide(a, b) returns the quotient a/b: for finite a and b the number
\* that multiplied by b gives a, else the IEEE quotient.
C24_DivideByZeroIsZero ==
    called = "Divide" =>
        LET a == args[1]
            b == args[2]
        IN IF b.class = "finite" /\ b.num = 0
           THEN ret = Const(0)
           ELSE IF a.class = "finite" /\ b.class = "finite"
           THEN /\ ret.class = "finite"
                /\ ret.num * b.num * a.den = a.num * ret.den * b.den
           ELSE ret = Quotient(a, b)

\* Divide of a number other than 0 by 0 has returned 0.
C24_Witness ==
    /\ called = "Divide"
    /\ args[1].class = "finite" /\ args[1].num # 0
    /\ args[2] = Const(0)
    /\ ret = Const(0)

\* The characters of a string: the bytes that are no continuation bytes.
CharacterCount(str) ==
    Cardinality({i \in 1..Len(str) : str[i] # ContinuationByte})

\* The first n characters of a string that has at least n.
FirstCharacters(str, n) ==
    LET end == CHOOSE k \in 0..Len(str) :
                   /\ CharacterCount(SubSeq(str, 1, k)) = n
                   /\ k < Len(str) => str[k + 1] # ContinuationByte
    IN SubSeq(str, 1, end)

\* C21 as stated: the example cell is "-" for an empty example, the example
\* unchanged when it has 30 characters or fewer, and its first 27 characters
\* followed by "..." when it has more than 30; it never exceeds 30
\* characters.
C21_ExampleCell ==
    called = "formatExampleForDisplay" =>
        LET str == IF args[1] = NilExample THEN <<>> ELSE args[1].v IN
        /\ ret = IF str = <<>> THEN <<"-">>
                 ELSE IF CharacterCount(str) <= DisplayLimit THEN str
                 ELSE FirstCharacters(str, DisplayKeep) \o <<".", ".", ".">>
        /\ CharacterCount(ret) <= DisplayLimit

\* The command has returned.
Returned(name) == cmd.name = name /\ cpc = "done"

\* The type name of the command line is registered and names a struct or a
\* pointer to one: the lookup and Generate succeed.
TypeDocumented == cmd.typeName \in DOMAIN types /\ IsRecord(types[cmd.typeName])

\* C25 as stated: a request for an unknown output format fails with an
\* unsupported-format error and produces no output: the doc command with a
\* format other than table or simple prints nothing, the schema command
\* with a format other than markdown prints nothing and writes no file.
C25_UnknownFormatFails ==
    /\ Returned("doc") /\ cmd.format \notin {"table", "simple"} =>
           cerr.msg = "unsupported format" /\ stdout = <<>>
    /\ Returned("schema") /\ cmd.format # "markdown" =>
           cerr.msg = "unsupported format" /\ stdout = <<>> /\ outFile = NoFile

\* C25, amended: a request for a format the command does not know (the doc
\* command knows table and simple, the schema command markdown and md)
\* fails and prints nothing to standard output, and the schema command
\* writes no file. The error is the unsupported-format error when the type
\* is registered and Generate succeeded, else the error of the lookup or of
\* Generate, which come first. The schema command serves md as it serves
\* markdown.
C25_UnknownFormatNoOutput ==
    /\ Returned("doc") /\ cmd.format \notin {"table", "simple"} =>
           /\ stdout = <<>> /\ outFile = NoFile
           /\ cerr # NoFailure
           /\ cerr.msg = "unsupported format" <=> TypeDocumented
    /\ Returned("schema") /\ cmd.format \notin {"markdown", "md"} =>
           /\ stdout = <<>> /\ outFile = NoFile
           /\ cerr # NoFailure
           /\ cerr.msg = "unsupported format" <=> TypeDocumented
    /\ Returned("schema") /\ cmd.format = "md" /\ TypeDocumented =>
           /\ cmd.output \in {"", "-"} => stdout # <<>> /\ cerr = NoFailure
           /\ cmd.output = "out.md" => outFile.path = "out.md" /\ cerr = NoFailure

\* The doc command, asked for the format json of a registered struct type,
\* has returned the unsupported-format error and printed nothing.
C25_Witness ==
    /\ Returned("doc")
    /\ cmd.format = "json" /\ TypeDocumented
    /\ cerr = Failure("unsupported format", "json")
    /\ stdout = <<>>
    /\ steps = <<"getTypeByName", "Generate">>

\* C30: with the registries as shipped (no entry), every doc and schema
\* command fails with the unknown-type error, having called neither
\* Generate nor a formatter and written nothing, whatever type name is
\* given; the list command reports that no types are registered and
\* returns no error.
C30_ShippedRegistry ==
    /\ (Returned("doc") \/ Returned("schema")) /\ DOMAIN types = {} =>
           /\ cerr = Failure("failed to get type", "unknown type")
           /\ steps = <<"getTypeByName">>
           /\ stdout = <<>> /\ outFile = NoFile
    /\ Returned("list") /\ DOMAIN registered = {} =>
           /\ cerr = NoFailure
           /\ stdout[1] = Line("text", <<<<"No types registered.">>>>)
           /\ \A i \in 1..Len(stdout) : stdout[i].kind \in {"text", "blank"}
           /\ outFile = NoFile

\* The schema command, run with the registry as shipped on a supported
\* format, has returned the unknown-type error.
C30_Witness ==
    /\ Returned("schema")
    /\ DOMAIN types = {}
    /\ cmd.format = "markdown" /\ cmd.output = "out.md"
    /\ cerr.msg = "failed to get type"
    /\ outFile = NoFile

\* Whether s is the beginning of t.
IsPrefix(s, t) == Len(s) <= Len(t) /\ SubSeq(t, 1, Len(s)) = s

\* The calls of the render command, in the order of the claim.
RenderOrder ==
    (IF cmd.dataFile = "" THEN <<>> ELSE <<"ReadFile", "Unmarshal">>)
        \o <<"NewJetEngine", "Load", "Render", "Print">>

\* The calls made when the data is decoded and the engine constructed.
Prepared == SubSeq(RenderOrder, 1, Len(RenderOrder) - 3)

\* C26: the render command decodes the data file, constructs the engine,
\* calls Load, calls Render and writes to standard output, in this order.
\* It writes the rendered text only after Load and Render have both
\* succeeded; when reading or decoding the data file, Load or Render fails
\* it returns that error, has written nothing, and takes no further step.
C26_RenderInOrder ==
    /\ [][cpc # "done"]_vars
    /\ [](/\ IsPrefix(steps, RenderOrder)
          /\ pc[Solo] # "idle" => cpc \in {"load", "render"}
          /\ ops >= 1 => IsPrefix(Prepared, steps)
          /\ ops = 2 => /\ IsPrefix(Prepared \o <<"Load">>, steps)
                        /\ held[Solo] # NilTemplate
          /\ stdout # <<>> =>
                 /\ cpc = "done" /\ cerr = NoFailure /\ steps = RenderOrder
                 /\ held[Solo] # NilTemplate
                 /\ rout[Solo].err = Nil
                 /\ stdout = <<Line("text", rout[Solo].text)>>
          /\ cerr # NoFailure =>
                 /\ cpc = "done" /\ stdout = <<>>
                 /\ cerr.msg = "failed to read data file" =>
                        steps = <<"ReadFile">> /\ ops = 0
                 /\ cerr.msg = "failed to parse data file" =>
                        steps = <<"ReadFile", "Unmarshal">> /\ ops = 0
                 /\ cerr.msg = "failed to load template" =>
                        /\ steps[Len(steps)] = "Load" /\ ops = 1
                        /\ held[Solo] = NilTemplate
                 /\ cerr.msg = "failed to render template" =>
                        /\ steps[Len(steps)] = "Render" /\ ops = 2
                        /\ rout[Solo].err # Nil)

\* The command has returned the error of a Render that failed after the
\* data file was decoded and the template loaded, and has written nothing.
C26_Witness ==
    /\ cmd.name = "render" /\ cpc = "done"
    /\ cerr = Failure("failed to render template", ErrRenderTemplate)
    /\ steps = <<"ReadFile", "Unmarshal", "NewJetEngine", "Load", "Render">>
    /\ stdout = <<>>

====
